---- MODULE Spec2Model ----
(***************************************************************************)
(* Model of madmom's evaluation core: onset_evaluation (onsets.py) and the *)
(* beat scoring functions pscore, cemgil, goto, cml, continuity and        *)
(* information_gain (beats.py).                                            *)
(*                                                                         *)
(* Event times are integers (ticks).  Real-valued quantities that the code *)
(* holds in floats are exact rationals <<numerator, denominator>> with a   *)
(* positive denominator; the float values nan, inf and -inf that numpy     *)
(* produces on a division by zero have the denominator 0.                  *)
(***************************************************************************)
EXTENDS Integers, Sequences, FiniteSets, TLC

VARIABLES detections, annotations, call, params, tie, pc,
          det, ann, det_index, ann_index, tp, fp, fn, errors,
          result, raised, caller, searched

vars == <<detections, annotations, call, params, tie, pc,
          det, ann, det_index, ann_index, tp, fp, fn, errors,
          result, raised, caller, searched>>

\* detections and annotations are the values of the arguments at the call;
\* caller holds what the sequences that the caller passed contain now
inputs == <<detections, annotations, call, params, tie, caller>>
scan == <<det, ann, det_index, ann_index, tp, fp, fn, errors>>
\* searched holds, in order, the index sequences that the body of the called
\* function has handed to find_longest_continuous_segment

(* ----------------------------- bounds ---------------------------------- *)
\* longest input sequence and latest event time of the enumerated inputs
MaxLen == 3
MaxTime == 3

(* --------------------------- generic helpers --------------------------- *)
Abs(x) == IF x < 0 THEN -x ELSE x

Max2(a, b) == IF a > b THEN a ELSE b

Range(s) == {s[i] : i \in 1..Len(s)}

IsSorted(s) == \A i \in 1..(Len(s) - 1) : s[i] <= s[i + 1]

SeqsUpTo(n, S) == UNION {[1..k -> S] : k \in 0..n}

SortedSeqs(n, t) == {s \in SeqsUpTo(n, 0..t) : IsSorted(s)}

\* s[from..] with 0-based from, as the Python slice s[from:]
SliceFrom(s, from) == SubSeq(s, from + 1, Len(s))

RECURSIVE Insert(_, _)
Insert(x, s) ==
    IF s = <<>> THEN <<x>>
    ELSE IF x <= Head(s) THEN <<x>> \o s
    ELSE <<Head(s)>> \o Insert(x, Tail(s))

\* np.sort
RECURSIVE Sort(_)
Sort(s) == IF s = <<>> THEN <<>> ELSE Insert(Head(s), Sort(Tail(s)))

(* the keyword parameters of a call; a function reads only its own, the *)
(* others stay at these values                                          *)
BaseParams ==
    [window |-> 1, tolerance |-> <<1, 4>>, sigma |-> <<1, 4>>,
     threshold |-> <<1, 4>>, mu |-> <<1, 4>>,
     phase_tolerance |-> <<1, 4>>, tempo_tolerance |-> <<1, 4>>,
     num_bins |-> 2, offbeat |-> TRUE, double |-> TRUE, triple |-> TRUE]

NoScan ==
    /\ det = <<>> /\ ann = <<>> /\ det_index = 0 /\ ann_index = 0
    /\ tp = <<>> /\ fp = <<>> /\ fn = <<>> /\ errors = <<>>

(* ------------------------------ numbers -------------------------------- *)
\* a float is a rational <<n, d>> with d > 0, or one of the three values
\* below, written with the denominator 0
NaN == <<0, 0>>

PosInf == <<1, 0>>

NegInf == <<-1, 0>>

IsRat(x) == x[2] # 0

Rat(n, d) == IF d < 0 THEN <<-n, -d>> ELSE <<n, d>>

RatLe(x, y) == x[1] * y[2] <= y[1] * x[2]

RatLt(x, y) == x[1] * y[2] < y[1] * x[2]

RatEq(x, y) == x[1] * y[2] = y[1] * x[2]

\* the float comparison x > y, false whenever nan is involved
FloatGt(x, y) ==
    IF x = NaN \/ y = NaN THEN FALSE
    ELSE IF x = PosInf THEN y # PosInf
    ELSE IF y = NegInf THEN x # NegInf
    ELSE IF x = NegInf \/ y = PosInf THEN FALSE
    ELSE RatLt(y, x)

\* a check that lets a parameter of exactly 0 pass
OnlyNegative(x) == x[1] < 0

\* lines 337, 378, 432, 515: float(x) <= 0 for a parameter x
NotPositive(x) == x[1] <= 0

RECURSIVE Gcd(_, _)
Gcd(a, b) == IF b = 0 THEN a ELSE Gcd(b, a % b)

Lcm(a, b) == (a * b) \div Gcd(a, b)

RECURSIVE SumSeq(_)
SumSeq(s) == IF s = <<>> THEN 0 ELSE Head(s) + SumSeq(Tail(s))

\* the array with the elements f[1], ..., f[n] of a function f over 1..n,
\* as a tuple
Array(f) == f \o <<>>

\* s[idx] for a 0-based index sequence idx (numpy fancy indexing)
Take(s, idx) == Array([i \in 1..Len(idx) |-> s[idx[i] + 1]])

\* s[mask] for a boolean mask (numpy boolean indexing)
RECURSIVE Where(_, _)
Where(s, mask) ==
    IF s = <<>> THEN <<>>
    ELSE (IF Head(mask) THEN <<Head(s)>> ELSE <<>>) \o Where(Tail(s), Tail(mask))

\* np.diff
Diff(s) == Array([i \in 1..(Len(s) - 1) |-> s[i + 1] - s[i]])

\* s[start::step] (0-based start)
Stride(s, start, step) ==
    Array([i \in 1..((Len(s) - start + step - 1) \div step) |->
             s[start + (i - 1) * step + 1]])

(* ============ evaluation/__init__.py: matching helpers ================= *)

\* the reference indices (0-based) at the least distance from q
Nearest(q, reference) ==
    {j \in 0..(Len(reference) - 1) :
        \A k \in 0..(Len(reference) - 1) :
            Abs(q - reference[j + 1]) <= Abs(q - reference[k + 1])}

SetMin(S) == CHOOSE x \in S : \A y \in S : x <= y

SetMax(S) == CHOOSE x \in S : \A y \in S : x >= y

\* find_closest_matches: for every query element the index of the nearest
\* reference element; between equidistant elements the rule `tie` decides
\* (the earlier or the later one), the same rule in every call
FindClosestMatches(query, reference) ==
    Array([i \in 1..Len(query) |->
             IF tie = "earlier" THEN SetMin(Nearest(query[i], reference))
             ELSE SetMax(Nearest(query[i], reference))])

\* calc_errors: query[i] - reference[matches[i]]
CalcErrors(query, reference, matches) ==
    Array([i \in 1..Len(query) |-> query[i] - reference[matches[i] + 1]])

\* calc_absolute_errors
CalcAbsoluteErrors(query, reference, matches) ==
    Array([i \in 1..Len(query) |-> Abs(query[i] - reference[matches[i] + 1])])

(* ========================= beats.py: helpers =========================== *)

\* the intervals with the edge entry left at the 0 of np.zeros_like
CalcIntervalsEdgeZero(events, fwd) ==
    LET d == Diff(events)
        n == Len(events)
    IN IF fwd THEN Array([i \in 1..n |-> IF i < n THEN d[i] ELSE 0])
       ELSE Array([i \in 1..n |-> IF i > 1 THEN d[i - 1] ELSE 0])

\* lines 164-174 of calc_intervals, for len(events) >= 2
CalcIntervals(events, fwd) ==
    LET d == Diff(events)
        n == Len(events)
    IN IF fwd THEN Array([i \in 1..n |-> IF i < n THEN d[i] ELSE d[n - 1]])
       ELSE Array([i \in 1..n |-> IF i > 1 THEN d[i - 1] ELSE d[1]])

\* lines 210-216: the table of len(annotations) + 1 intervals
IntervalTable(annots) ==
    LET d == Diff(annots)
        n == Len(annots)
    IN Array([k \in 1..(n + 1) |->
                IF k = 1 THEN d[1] ELSE IF k = n + 1 THEN d[n - 1] ELSE d[k - 1]])

\* a lookup that always takes the interval from the previous annotation
FindClosestIntervalsBackward(dets, annots, matches) ==
    LET intervals == IntervalTable(annots)
    IN Array([i \in 1..Len(dets) |-> intervals[matches[i] + 1]])

\* lines 204-229 of find_closest_intervals, for len(annotations) >= 2
FindClosestIntervals(dets, annots, matches) ==
    LET intervals == IntervalTable(annots)
        errs == CalcErrors(dets, annots, matches)
    IN Array([i \in 1..Len(dets) |->
                IF errs[i] > 0 THEN intervals[matches[i] + 2]
                ELSE intervals[matches[i] + 1]])

\* the float quotient e / i of numpy
FloatDiv(e, i) ==
    IF i # 0 THEN Rat(e, i)
    ELSE IF e = 0 THEN NaN
    ELSE IF e > 0 THEN PosInf ELSE NegInf

\* lines 276-286 of calc_relative_errors, for len(annotations) >= 2
CalcRelativeErrors(dets, annots) ==
    LET matches == FindClosestMatches(dets, annots)
        errs == CalcErrors(dets, annots, matches)
        intervals == FindClosestIntervals(dets, annots, matches)
    IN Array([i \in 1..Len(dets) |-> FloatDiv(errs[i], intervals[i])])

\* line 243: np.nonzero(np.diff(sequence_indices) != 1)[0] + 1
RECURSIVE Boundaries(_, _)
Boundaries(s, i) ==
    IF i >= Len(s) THEN <<>>
    ELSE (IF s[i + 1] - s[i] # 1 THEN <<i>> ELSE <<>>) \o Boundaries(s, i + 1)

\* an argmax that takes the last position of the maximum
ArgMaxLast(s) == SetMax({i \in 0..(Len(s) - 1) : \A j \in 1..Len(s) : s[i + 1] >= s[j]})

\* np.argmax: the first position (0-based) of the maximum
ArgMax(s) == SetMin({i \in 0..(Len(s) - 1) : \A j \in 1..Len(s) : s[i + 1] >= s[j]})

\* lines 243-252
FindLongestContinuousSegment(sequence_indices) ==
    LET boundaries == <<0>> \o Boundaries(sequence_indices, 1)
                           \o <<Len(sequence_indices)>>
        segment_lengths == Diff(boundaries)
        at == ArgMax(segment_lengths)
    IN [length |-> segment_lengths[at + 1], start_pos |-> boundaries[at + 1]]

(* ===================== beats.py: scoring functions ===================== *)

\* what a call gives back: a value, or the exception it raised
Ret(v) == [raised |-> "none", value |-> v]

Raise(e) == [raised |-> e, value |-> <<>>]

One == <<1, 1>>

Zero == <<0, 1>>

\* a test for a missing sequence that takes "and" for "or"
EitherEmpty(dets, annots) == Len(dets) = 0 \/ Len(annots) = 0

\* lines 326, 371, 421, 500, 595: neither sequence is given
BothEmpty(dets, annots) == Len(dets) = 0 /\ Len(annots) = 0

\* a test that only notices missing detections
OnlyDetectionsEmpty(dets, annots) == Len(dets) = 0 /\ Len(annots) # 0

\* lines 329, 374, 424, 503, 598: exactly one sequence is given
OneEmpty(dets, annots) == (Len(dets) = 0) # (Len(annots) = 0)

\* twice np.median(s), for a non-empty s
Median2(s) ==
    LET sorted == Sort(s)
        n == Len(s)
    IN IF n % 2 = 1 THEN 2 * sorted[(n + 1) \div 2]
       ELSE sorted[n \div 2] + sorted[n \div 2 + 1]

\* an error test that leaves out the edge of the window
PscoreHitStrict(err, tolerance, med2) ==
    err * 2 * tolerance[2] < tolerance[1] * med2

\* lines 345, 349: errors <= tolerance * np.median(np.diff(annotations))
PscoreHit(err, tolerance, med2) ==
    err * 2 * tolerance[2] <= tolerance[1] * med2

\* lines 325-353
Pscore(dets, annots, tolerance) ==
    IF BothEmpty(dets, annots) THEN Ret(One)
    ELSE IF OneEmpty(dets, annots) THEN Ret(Zero)
    ELSE IF Len(annots) < 2 THEN Raise("BeatIntervalError")
    ELSE IF NotPositive(tolerance) THEN Raise("ValueError")
    ELSE LET med2 == Median2(Diff(annots))
             errs == CalcAbsoluteErrors(dets, annots,
                                        FindClosestMatches(dets, annots))
             p == Cardinality({i \in 1..Len(dets) :
                                 PscoreHit(errs[i], tolerance, med2)})
         IN Ret(<<p, Max2(Len(dets), Len(annots))>>)

\* lines 370-398; the accuracy is kept as the exponents -(e^2) / (2 sigma^2)
\* of the Gaussian weights that are summed and the normalisation
\* 0.5 * (len(annotations) + len(detections))
Cemgil(dets, annots, sigma) ==
    IF BothEmpty(dets, annots) THEN Ret(One)
    ELSE IF OneEmpty(dets, annots) THEN Ret(Zero)
    ELSE IF NotPositive(sigma) THEN Raise("ValueError")
    ELSE LET errs == CalcAbsoluteErrors(dets, annots,
                                        FindClosestMatches(dets, annots))
         IN Ret([exponents |->
                   [i \in 1..Len(dets) |->
                      Rat(-(errs[i] * errs[i] * sigma[2] * sigma[2]),
                          2 * sigma[1] * sigma[1])],
                 norm |-> <<Len(annots) + Len(dets), 2>>])

\* line 449: np.abs(errors[closest]) <= threshold
WithinThreshold(e, threshold) ==
    IsRat(e) /\ Abs(e[1]) * threshold[2] <= threshold[1] * e[2]

RECURSIVE LcmOfDenominators(_)
LcmOfDenominators(es) ==
    IF es = <<>> THEN 1 ELSE Lcm(Head(es)[2], LcmOfDenominators(Tail(es)))

\* the errors es (finite rationals) as integers over the denominator k
Scaled(es, k) == Array([i \in 1..Len(es) |-> es[i][1] * (k \div es[i][2])])

\* line 463: np.mean(np.abs(segment_errors)) > mu
MeanAbsExceeds(es, mu) ==
    LET k == LcmOfDenominators(es)
        x == Scaled(es, k)
    IN SumSeq([i \in 1..Len(x) |-> Abs(x[i])]) * mu[2] > mu[1] * k * Len(es)

\* a deviation taken over the absolute errors
StdExceedsOfAbs(es, sigma) ==
    LET k == LcmOfDenominators(es)
        x == [i \in 1..Len(es) |-> Abs(Scaled(es, k)[i])]
        n == Len(es)
        nvar == n * SumSeq([i \in 1..n |-> x[i] * x[i]]) - SumSeq(x) * SumSeq(x)
    IN nvar * sigma[2] * sigma[2] > n * n * k * k * sigma[1] * sigma[1]

\* line 469: np.std(segment_errors) > sigma, on the signed errors
StdExceeds(es, sigma) ==
    LET k == LcmOfDenominators(es)
        x == Scaled(es, k)
        n == Len(es)
        nvar == n * SumSeq([i \in 1..n |-> x[i] * x[i]]) - SumSeq(x) * SumSeq(x)
    IN nvar * sigma[2] * sigma[2] > n * n * k * k * sigma[1] * sigma[1]

\* lines 441-451: the threshold-passing matches and their longest segment
GotoMatches(dets, annots, threshold) ==
    LET closest == FindClosestMatches(annots, dets)
        errs == CalcRelativeErrors(dets, annots)
    IN Where(closest, Array([i \in 1..Len(closest) |->
                               WithinThreshold(errs[closest[i] + 1], threshold)]))

\* lines 420-472
Goto(dets, annots, threshold, sigma, mu) ==
    IF BothEmpty(dets, annots) THEN Ret(One)
    ELSE IF OneEmpty(dets, annots) THEN Ret(Zero)
    ELSE IF Len(annots) < 2 THEN Raise("BeatIntervalError")
    ELSE IF NotPositive(threshold) \/ NotPositive(sigma) \/ NotPositive(mu)
      THEN Raise("ValueError")
    ELSE LET errs == CalcRelativeErrors(dets, annots)
             closest == GotoMatches(dets, annots, threshold)
             seg == FindLongestContinuousSegment(closest)
             segment_errors ==
                 Take(errs, SubSeq(closest, seg.start_pos + 1,
                                   seg.start_pos + seg.length))
         IN IF 4 * seg.length < Len(annots) THEN Ret(Zero)
            ELSE IF MeanAbsExceeds(segment_errors, mu) THEN Ret(Zero)
            ELSE IF StdExceeds(segment_errors, sigma) THEN Ret(Zero)
            ELSE Ret(One)

\* line 451: the call find_longest_continuous_segment(closest), reached when
\* none of the returns and raises of lines 420-432 was taken
GotoSearches(dets, annots, threshold, sigma, mu) ==
    IF \/ BothEmpty(dets, annots) \/ OneEmpty(dets, annots)
       \/ Len(annots) < 2
       \/ NotPositive(threshold) \/ NotPositive(sigma) \/ NotPositive(mu)
      THEN <<>>
    ELSE <<GotoMatches(dets, annots, threshold)>>

\* line 533: errors <= ann_interval * phase_tolerance
PhaseCorrect(err, ann_interval, phase_tolerance) ==
    err * phase_tolerance[2] <= ann_interval * phase_tolerance[1]

\* lines 543-544: abs(1 - (det_interval / ann_interval)) <= tempo_tolerance;
\* a division by zero gives inf or nan, for which the test is false
TempoCorrect(det_interval, ann_interval, tempo_tolerance) ==
    /\ ann_interval # 0
    /\ Abs(ann_interval - det_interval) * tempo_tolerance[2]
         <= tempo_tolerance[1] * Abs(ann_interval)

RECURSIVE SetToSortedSeq(_)
SetToSortedSeq(S) ==
    IF S = {} THEN <<>>
    ELSE LET m == SetMin(S) IN <<m>> \o SetToSortedSeq(S \ {m})

\* np.union1d: the sorted, unique values found in either array
Union1d(a, b) == SetToSortedSeq(Range(a) \cup Range(b))

\* np.intersect1d: the sorted, unique values found in both arrays
Intersect1d(a, b) == SetToSortedSeq(Range(a) \cap Range(b))

\* np.searchsorted(s, v): the number of elements of the sorted s below v
SearchSorted(s, v) == Cardinality({j \in 1..Len(s) : s[j] < v})

\* lines 522-548: the values and the indices of the correct detections
CmlCorrect(dets, annots, phase_tolerance, tempo_tolerance) ==
    LET closest == FindClosestMatches(dets, annots)
        errs == CalcAbsoluteErrors(dets, annots, closest)
        det_interval == CalcIntervals(dets, FALSE)
        ann_interval == Take(CalcIntervals(annots, FALSE), closest)
        correct_phase ==
            Where(dets, Array([i \in 1..Len(dets) |->
                                 PhaseCorrect(errs[i], ann_interval[i],
                                              phase_tolerance)]))
        correct_tempo ==
            Where(dets, Array([i \in 1..Len(dets) |->
                                 TempoCorrect(det_interval[i], ann_interval[i],
                                              tempo_tolerance)]))
        correct == Intersect1d(correct_phase, correct_tempo)
    IN [correct |-> correct,
        correct_idx |->
            Array([i \in 1..Len(correct) |-> SearchSorted(dets, correct[i])])]

\* lines 499-557
Cml(dets, annots, phase_tolerance, tempo_tolerance) ==
    IF BothEmpty(dets, annots) THEN Ret(<<One, One>>)
    ELSE IF OneEmpty(dets, annots) THEN Ret(<<Zero, Zero>>)
    ELSE IF Len(annots) < 2 THEN Raise("BeatIntervalError")
    ELSE IF Len(dets) < 2 THEN Raise("BeatIntervalError")
    ELSE IF NotPositive(tempo_tolerance) \/ NotPositive(phase_tolerance)
      THEN Raise("ValueError")
    ELSE LET c == CmlCorrect(dets, annots, phase_tolerance, tempo_tolerance)
             length == Max2(Len(dets), Len(annots))
             longest == FindLongestContinuousSegment(c.correct_idx).length
         IN Ret(<< <<longest, length>>, <<Len(c.correct), length>> >>)

\* the time resolution of the beat sequences: event times are multiples of
\* Tick, which makes the halves and thirds that np.interp produces at the
\* steps 0.5 and 1/3 integral
Tick == 2 * 3

\* np.interp(j / m, np.arange(len(s)), s) for 0 <= j / m <= len(s) - 1
Interp(s, j, m) ==
    LET i == j \div m
        r == j % m
    IN IF r = 0 THEN s[i + 1]
       ELSE s[i + 1] + (r * (s[i + 2] - s[i + 1])) \div m

\* a double tempo sequence cut by two items, as the triple one is
DoubleSequenceTwoLess(s) ==
    IF Len(s) = 0 THEN <<>>
    ELSE Array([k \in 1..(2 * Len(s) - 2) |-> Interp(s, k - 1, 2)])

\* lines 102-110
DoubleSequence(s) ==
    IF Len(s) = 0 THEN <<>>
    ELSE Array([k \in 1..(2 * Len(s) - 1) |-> Interp(s, k - 1, 2)])

\* lines 125-133
TripleSequence(s) ==
    IF Len(s) = 0 THEN <<>>
    ELSE Array([k \in 1..(3 * Len(s) - 2) |-> Interp(s, k - 1, 3)])

\* variations with the two half tempo sequences in the other order
VariationsHalfSwapped(sequence, offbeat, double, half, triple, third) ==
    (IF offbeat THEN <<Stride(DoubleSequence(sequence), 1, 2)>> ELSE <<>>)
    \o (IF double THEN <<DoubleSequence(sequence)>> ELSE <<>>)
    \o (IF half THEN <<Stride(sequence, 1, 2), Stride(sequence, 0, 2)>> ELSE <<>>)
    \o (IF triple THEN <<TripleSequence(sequence)>> ELSE <<>>)
    \o (IF third
          THEN <<Stride(sequence, 0, 3), Stride(sequence, 1, 3),
                 Stride(sequence, 2, 3)>>
        ELSE <<>>)

\* lines 98-144
Variations(sequence, offbeat, double, half, triple, third) ==
    (IF offbeat THEN <<Stride(DoubleSequence(sequence), 1, 2)>> ELSE <<>>)
    \o (IF double THEN <<DoubleSequence(sequence)>> ELSE <<>>)
    \o (IF half THEN <<Stride(sequence, 0, 2), Stride(sequence, 1, 2)>> ELSE <<>>)
    \o (IF triple THEN <<TripleSequence(sequence)>> ELSE <<>>)
    \o (IF third
          THEN <<Stride(sequence, 0, 3), Stride(sequence, 1, 3),
                 Stride(sequence, 2, 3)>>
        ELSE <<>>)

\* a maximum that lets nan through, as np.maximum does
MaxNanPropagating(a, b) ==
    IF a = NaN \/ b = NaN THEN NaN ELSE IF FloatGt(b, a) THEN b ELSE a

\* lines 625, 626: Python's max(a, b), which is b only if b > a
PyMax(a, b) == IF FloatGt(b, a) THEN b ELSE a

\* lines 602, 622: cml(detections, sequence, tempo_tolerance, phase_tolerance)
ContinuityCml(dets, sequence, phase_tolerance, tempo_tolerance) ==
    Cml(dets, sequence, tempo_tolerance, phase_tolerance)

\* a loop without the except clause
CaughtNothing(e) == FALSE

\* line 623: except BeatIntervalError
CaughtInLoop(e) == e = "BeatIntervalError"

\* lines 616-626: the loop over the metrical variants
RECURSIVE EvaluateVariants(_, _, _, _, _)
EvaluateVariants(dets, sequences, phase_tolerance, tempo_tolerance, aml) ==
    IF sequences = <<>> \/ aml.raised # "none" THEN aml
    ELSE LET r == ContinuityCml(dets, Head(sequences), phase_tolerance,
                                tempo_tolerance)
             c == IF r.raised = "none" THEN r.value[1] ELSE NaN
             t == IF r.raised = "none" THEN r.value[2] ELSE NaN
             next == IF r.raised = "none" \/ CaughtInLoop(r.raised)
                       THEN Ret(<<PyMax(aml.value[1], c), PyMax(aml.value[2], t)>>)
                     ELSE Raise(r.raised)
         IN EvaluateVariants(dets, Tail(sequences), phase_tolerance,
                             tempo_tolerance, next)

\* lines 594-629
Continuity(dets, annots, phase_tolerance, tempo_tolerance, offbeat, double, triple) ==
    IF BothEmpty(dets, annots) THEN Ret(<<One, One, One, One>>)
    ELSE IF OneEmpty(dets, annots) THEN Ret(<<Zero, Zero, Zero, Zero>>)
    ELSE LET first == ContinuityCml(dets, annots, phase_tolerance,
                                    tempo_tolerance)
         IN IF first.raised # "none" THEN first
            ELSE LET cmlc == first.value[1]
                     cmlt == first.value[2]
                 IN IF FloatGt(cmlc, <<1, 2>>)
                      THEN Ret(<<cmlc, cmlt, cmlc, cmlt>>)
                    ELSE LET aml ==
                                 EvaluateVariants(
                                     dets,
                                     Variations(annots, offbeat, double, double,
                                                triple, triple),
                                     phase_tolerance, tempo_tolerance,
                                     Ret(<<cmlc, cmlt>>))
                         IN IF aml.raised # "none" THEN aml
                            ELSE Ret(<<cmlc, cmlt, aml.value[1], aml.value[2]>>)

\* line 551: the call find_longest_continuous_segment(correct_idx), reached
\* when none of the returns and raises of lines 499-515 was taken
CmlSearches(dets, annots, phase_tolerance, tempo_tolerance) ==
    IF \/ BothEmpty(dets, annots) \/ OneEmpty(dets, annots)
       \/ Len(annots) < 2 \/ Len(dets) < 2
       \/ NotPositive(tempo_tolerance) \/ NotPositive(phase_tolerance)
      THEN <<>>
    ELSE <<CmlCorrect(dets, annots, phase_tolerance, tempo_tolerance).correct_idx>>

\* np.log2(n) in millionths of a bit for n >= 1: exact on the powers of 2,
\* additive over products, rounded on the other primes
RECURSIVE Log2Micro(_)
Log2Micro(n) ==
    CASE n = 1 -> 0
      [] n > 1 /\ n % 2 = 0 -> 1000000 + Log2Micro(n \div 2)
      [] n > 1 /\ n % 2 # 0 /\ n % 3 = 0 -> 1584963 + Log2Micro(n \div 3)
      [] n > 1 /\ n % 2 # 0 /\ n % 3 # 0 /\ n % 5 = 0 -> 2321928 + Log2Micro(n \div 5)
      [] n = 7 -> 2807355
      [] n = 11 -> 3459432
      [] n = 13 -> 3700440

\* np.log2(num_bins) as line 746 takes it, for num_bins >= 0
Log2Float(n) == IF n = 0 THEN NegInf ELSE <<Log2Micro(n), 1>>

\* line 648: num_bins % 2 != 0 or num_bins < 2
BinsInvalid(num_bins) == num_bins % 2 # 0 \/ num_bins < 2

\* a folding that leaves out the final + 0.5
FoldErrorNotRecentred(e) ==
    IF ~IsRat(e) THEN NaN
    ELSE <<-((-(2 * e[1]) - e[2]) % (2 * e[2])), 2 * e[2]>>

\* line 682: np.mod(errors + 0.5, -1) + 0.5, a value in (-0.5, 0.5]; inf
\* and nan become nan
FoldError(e) ==
    IF ~IsRat(e) THEN NaN
    ELSE <<e[2] - ((-(2 * e[1]) - e[2]) % (2 * e[2])), 2 * e[2]>>

\* the raw bin under edges without the half bin offset of line 656
RawBinWithoutOffset(f, num_bins) ==
    (2 * f[1] * num_bins + f[2] * num_bins) \div (2 * f[2])

\* lines 656-659, 684: the raw bin (0..num_bins) of a folded error under the
\* edges np.linspace(-0.5 - offset, 0.5 + offset, num_bins + 2); the last
\* bin includes its right edge
RawBin(f, num_bins) ==
    (2 * f[1] * num_bins + f[2] * num_bins + f[2]) \div (2 * f[2])

\* lines 680-682: the relative errors, folded
FoldedErrors(dets, annots) ==
    LET errs == CalcRelativeErrors(dets, annots)
    IN Array([i \in 1..Len(dets) |-> FoldError(errs[i])])

\* lines 684-688: counts per bin, the last raw bin added to the first; nan
\* is not counted by np.histogram
BinCounts(folded, num_bins) ==
    LET bin(i) == LET k == RawBin(folded[i], num_bins)
                  IN IF k = num_bins THEN 0 ELSE k
    IN Array([b \in 1..num_bins |->
                Cardinality({i \in 1..Len(folded) :
                               IsRat(folded[i]) /\ bin(i) = b - 1})])

\* lines 679-688
ErrorHistogram(dets, annots, num_bins) ==
    BinCounts(FoldedErrors(dets, annots), num_bins)

\* lines 700-706, times sum(histogram), in millionths of a bit:
\* -sum(p * log2(p)) = log2(N) - sum(c * log2(c)) / N for counts c, N = sum(c)
EntropyTimesSum(histogram) ==
    LET n == SumSeq(histogram)
    IN n * Log2Micro(n)
         - SumSeq([i \in 1..Len(histogram) |->
                     IF histogram[i] = 0 THEN 0
                     ELSE histogram[i] * Log2Micro(histogram[i])])

\* lines 719-725: a rational number of millionths of a bit
InformationGainOf(histogram) ==
    LET n == SumSeq(histogram)
    IN IF n = 0 THEN <<Log2Micro(Len(histogram)), 1>>
       ELSE <<n * Log2Micro(Len(histogram)) - EntropyTimesSum(histogram), n>>

AsFloats(histogram) == Array([i \in 1..Len(histogram) |-> <<histogram[i], 1>>])

\* lines 765-767: num_bins > len(annotations), which only warns
TooFewAnnotationsForBins(annots, num_bins) == num_bins > Len(annots)

\* a choice that prefers the higher information gain
TakeForwardIfHigher(fwd_ig, bwd_ig) == RatLt(bwd_ig, fwd_ig)

\* line 782: fwd_ig < bwd_ig
TakeForward(fwd_ig, bwd_ig) == RatLt(fwd_ig, bwd_ig)

\* lines 743-785; np.zeros and np.ones raise ValueError for a negative size
InformationGain(dets, annots, num_bins) ==
    IF BothEmpty(dets, annots)
      THEN IF num_bins < 0 THEN Raise("ValueError")
           ELSE Ret([ig |-> Log2Float(num_bins),
                     histogram |-> [i \in 1..num_bins |-> Zero]])
    ELSE IF Len(dets) = 0 \/ Len(annots) = 0
      THEN IF num_bins < 0 THEN Raise("ValueError")
           ELSE Ret([ig |-> Zero,
                     histogram |->
                       [i \in 1..num_bins |->
                          <<Max2(Len(dets), Len(annots)), num_bins>>]])
    ELSE IF Len(dets) < 2 \/ Len(annots) < 2 THEN Raise("BeatIntervalError")
    ELSE IF BinsInvalid(num_bins) THEN Raise("ValueError")
    ELSE LET fwd_histogram == ErrorHistogram(dets, annots, num_bins)
             fwd_ig == InformationGainOf(fwd_histogram)
             bwd_histogram == ErrorHistogram(annots, dets, num_bins)
             bwd_ig == InformationGainOf(bwd_histogram)
         IN IF TakeForward(fwd_ig, bwd_ig)
              THEN Ret([ig |-> fwd_ig, histogram |-> AsFloats(fwd_histogram)])
            ELSE Ret([ig |-> bwd_ig, histogram |-> AsFloats(bwd_histogram)])

(* --------------------------- calls of beats.py ------------------------- *)

Times == {Tick * t : t \in 0..MaxTime}

BeatSeqs == {s \in SeqsUpTo(MaxLen, Times) : IsSorted(s)}

\* one call of a scoring function: it returns a value or raises
Finish(r) ==
    /\ pc' = IF r.raised = "none" THEN "done" ELSE "raised"
    /\ result' = r.value
    /\ raised' = r.raised
    /\ UNCHANGED <<inputs, scan, searched>>

\* the same for a function whose body has called
\* find_longest_continuous_segment with the index sequences s
FinishAfterSearch(r, s) ==
    /\ pc' = IF r.raised = "none" THEN "done" ELSE "raised"
    /\ result' = r.value
    /\ raised' = r.raised
    /\ searched' = s
    /\ UNCHANGED <<inputs, scan>>

CallPscore ==
    /\ pc = "call" /\ call = "pscore"
    /\ \E r \in {Pscore(detections, annotations, params.tolerance)} : Finish(r)

CallCemgil ==
    /\ pc = "call" /\ call = "cemgil"
    /\ \E r \in {Cemgil(detections, annotations, params.sigma)} : Finish(r)

CallGoto ==
    /\ pc = "call" /\ call = "goto"
    /\ \E r \in {Goto(detections, annotations, params.threshold, params.sigma, params.mu)} :
         FinishAfterSearch(r, GotoSearches(detections, annotations, params.threshold, params.sigma, params.mu))

CallCml ==
    /\ pc = "call" /\ call = "cml"
    /\ \E r \in {Cml(detections, annotations, params.phase_tolerance, params.tempo_tolerance)} :
         FinishAfterSearch(r, CmlSearches(detections, annotations, params.phase_tolerance, params.tempo_tolerance))

CallContinuity ==
    /\ pc = "call" /\ call = "continuity"
    /\ \E r \in {Continuity(detections, annotations, params.phase_tolerance, params.tempo_tolerance, params.offbeat, params.double, params.triple)} : Finish(r)

CallInformationGain ==
    /\ pc = "call" /\ call = "information_gain"
    /\ \E r \in {InformationGain(detections, annotations, params.num_bins)} : Finish(r)

\* the state before a call of the function f with the arguments d, a, p
Called(f, d, a, p) ==
    /\ call = f /\ detections = d /\ annotations = a /\ params = p
    /\ caller = [detections |-> d, annotations |-> a]
    /\ tie \in (IF f \in {"onset_evaluation", "OnsetEvaluation"} THEN {"earlier"}
                ELSE {"earlier", "later"})
    /\ pc = "call"
    /\ NoScan
    /\ result = <<>>
    /\ raised = "none"
    /\ searched = <<>>

(* ======================= onsets.py: onset_evaluation =================== *)

\* the detections and annotations of the repository's unit test, in
\* nanoseconds after t = 1 s
TEST_DETECTIONS ==
    <<-10, 29999990, 450000000, 1010000000, 1020000000, 1500000000,
      2025000001>>
TEST_ANNOTATIONS ==
    <<0, 20000000, 500000000, 1000000000, 1030000000, 1050000000,
      1500000000, 2000000000>>
TEST_WINDOWS == {10000000, 25000000, 40000000}

Windows == {-1, 0, 1, 2}

OnsetResult(t, p, n, e) == [tp |-> t, fp |-> p, tn |-> <<>>, fn |-> n, errors |-> e]

\* a window test without the abs
WithinWindowOneSided(d, a, window) == d - a <= window

\* a scan that takes a detection exactly window away as no match
WithinWindowStrict(d, a, window) == Abs(d - a) < window

\* line 126: abs(d - a) <= window
WithinWindow(d, a, window) == Abs(d - a) <= window

\* line 108: float(window) <= 0
WindowInvalid(window) == window <= 0

\* lines 80-118: type coercion, initialisation, the three shortcuts for
\* empty input, the window check, sorting and the pointer set-up
OnsetEnter ==
    /\ pc = "call" /\ call = "onset_evaluation"
    /\ IF Len(detections) = 0 /\ Len(annotations) = 0
         THEN /\ result' = OnsetResult(<<>>, <<>>, <<>>, <<>>)
              /\ pc' = "done"
              /\ UNCHANGED <<scan, raised>>
       ELSE IF Len(annotations) = 0
         THEN /\ result' = OnsetResult(<<>>, detections, <<>>, <<>>)
              /\ pc' = "done"
              /\ UNCHANGED <<scan, raised>>
       ELSE IF Len(detections) = 0
         THEN /\ result' = OnsetResult(<<>>, <<>>, annotations, <<>>)
              /\ pc' = "done"
              /\ UNCHANGED <<scan, raised>>
       ELSE IF WindowInvalid(params.window)
         THEN /\ raised' = "ValueError"
              /\ pc' = "raised"
              /\ UNCHANGED <<scan, result>>
       ELSE /\ det' = Sort(detections)
            /\ ann' = Sort(annotations)
            /\ det_index' = 0
            /\ ann_index' = 0
            /\ pc' = "scan"
            /\ UNCHANGED <<tp, fp, fn, errors, result, raised>>
    /\ UNCHANGED <<inputs, searched>>

\* a pointer that is left where it is
NotAdvanced(index) == index

\* lines 125-126, 131, 136: det_index += 1, ann_index += 1
Advanced(index) == index + 1

\* lines 120-148: one iteration of the scan loop
OnsetScan ==
    /\ pc = "scan"
    /\ det_index < Len(detections) /\ ann_index < Len(annotations)
    /\ LET d == det[det_index + 1]
           a == ann[ann_index + 1]
       IN IF WithinWindow(d, a, params.window)
            THEN /\ tp' = Append(tp, d)
                 /\ errors' = Append(errors, d - a)
                 /\ det_index' = Advanced(det_index)
                 /\ ann_index' = Advanced(ann_index)
                 /\ UNCHANGED <<fp, fn, pc, raised>>
          ELSE IF d < a
            THEN /\ fp' = Append(fp, d)
                 /\ det_index' = Advanced(det_index)
                 /\ UNCHANGED <<tp, errors, ann_index, fn, pc, raised>>
          ELSE IF d > a
            THEN /\ fn' = Append(fn, a)
                 /\ ann_index' = Advanced(ann_index)
                 /\ UNCHANGED <<tp, errors, det_index, fp, pc, raised>>
          ELSE /\ raised' = "AssertionError"
               /\ pc' = "raised"
               /\ UNCHANGED <<tp, fp, fn, errors, det_index, ann_index>>
    /\ UNCHANGED <<inputs, det, ann, result, searched>>

\* a slice that drops the detection the pointer stands on
RemainingDetectionsSkipOne(s, index) == SliceFrom(s, index + 1)

\* line 150: fp = np.append(fp, det[det_index:])
RemainingDetections(s, index) == SliceFrom(s, index)

\* lines 149-161: the rest of both sequences, the three checks, the return
OnsetFinish ==
    /\ pc = "scan"
    /\ ~(det_index < Len(detections) /\ ann_index < Len(annotations))
    /\ LET fp2 == fp \o RemainingDetections(det, det_index)
           fn2 == fn \o SliceFrom(ann, ann_index)
       IN /\ fp' = fp2
          /\ fn' = fn2
          /\ IF \/ Len(tp) + Len(fp2) # Len(detections)
                \/ Len(tp) + Len(fn2) # Len(annotations)
                \/ Len(tp) # Len(errors)
               THEN /\ raised' = "AssertionError"
                    /\ pc' = "raised"
                    /\ UNCHANGED result
             ELSE /\ result' = OnsetResult(tp, fp2, fn2, errors)
                  /\ pc' = "done"
                  /\ UNCHANGED raised
    /\ UNCHANGED <<inputs, det, ann, det_index, ann_index, tp, errors, searched>>

OnsetInputs ==
    {<<d, a, w>> : d \in SortedSeqs(MaxLen, MaxTime),
                   a \in SortedSeqs(MaxLen, MaxTime), w \in Windows}
    \cup {<<TEST_DETECTIONS, TEST_ANNOTATIONS, w>> : w \in TEST_WINDOWS}

InitOnset ==
    /\ \E i \in OnsetInputs :
         /\ detections = i[1]
         /\ annotations = i[2]
         /\ params = [BaseParams EXCEPT !.window = i[3]]
         /\ caller = [detections |-> i[1], annotations |-> i[2]]
    /\ call = "onset_evaluation"
    /\ tie = "earlier"
    /\ pc = "call"
    /\ NoScan
    /\ result = <<>>
    /\ raised = "none"
    /\ searched = <<>>

NextOnset == OnsetEnter \/ OnsetScan \/ OnsetFinish

SpecOnset == InitOnset /\ [][NextOnset]_vars

(* ------------------- calls with short or empty input ------------------ *)
\* longest sequence of the calls that probe the shortcuts and the checks
MaxShort == 2
\* their latest event time, in ticks
MaxShortTime == 2

ShortSeqs ==
    {s \in SeqsUpTo(MaxShort, {Tick * t : t \in 0..MaxShortTime}) : IsSorted(s)}

Tolerances == {<<-1, 4>>, <<0, 1>>, <<1, 4>>, <<1, 1>>}

SomeFlags == {<<TRUE, TRUE, TRUE>>, <<FALSE, FALSE, FALSE>>}

EdgeCalls ==
    {<<"onset_evaluation", [BaseParams EXCEPT !.window = w]>> :
        w \in {-1, 0, 1, Tick}}
    \cup {<<"pscore", [BaseParams EXCEPT !.tolerance = x]>> : x \in Tolerances}
    \cup {<<"cemgil", [BaseParams EXCEPT !.sigma = x]>> : x \in Tolerances}
    \cup {<<"goto", [BaseParams EXCEPT !.threshold = x[1], !.sigma = x[2], !.mu = x[3]]>> :
            x \in {<<<<-1, 4>>, <<1, 4>>, <<1, 4>>>>, <<<<1, 4>>, <<0, 1>>, <<1, 4>>>>,
                    <<<<1, 4>>, <<1, 4>>, <<0, 1>>>>, <<<<1, 4>>, <<1, 4>>, <<1, 1>>>>}}
    \cup {<<"cml", [BaseParams EXCEPT !.phase_tolerance = x[1], !.tempo_tolerance = x[2]]>> :
            x \in {<<0, 1>>, <<1, 4>>} \X {<<-1, 4>>, <<1, 4>>}}
    \cup {<<"continuity",
             [BaseParams EXCEPT !.phase_tolerance = x[1], !.tempo_tolerance = x[2],
                                !.offbeat = x[3][1], !.double = x[3][2], !.triple = x[3][3]]>> :
            x \in {<<0, 1>>, <<1, 4>>} \X {<<-1, 4>>, <<1, 4>>} \X SomeFlags}
    \cup {<<"information_gain", [BaseParams EXCEPT !.num_bins = n]>> :
            n \in {-2, 0, 1, 2, 3, 4}}

InitEdge ==
    \E d \in ShortSeqs, a \in ShortSeqs, c \in EdgeCalls : Called(c[1], d, a, c[2])

NextEdge ==
    \/ OnsetEnter \/ OnsetScan \/ OnsetFinish
    \/ CallPscore \/ CallCemgil \/ CallGoto \/ CallCml \/ CallContinuity
    \/ CallInformationGain

SpecEdge == InitEdge /\ [][NextEdge]_vars

(* ---------------------- calls of cml and continuity -------------------- *)
\* longest sequence and latest event time (in ticks) of these calls
CmlMaxLen == 3
CmlMaxTime == 2

CmlSeqs ==
    {s \in SeqsUpTo(CmlMaxLen, {Tick * t : t \in 0..CmlMaxTime}) : IsSorted(s)}

CmlCalls ==
    {<<"cml", [BaseParams EXCEPT !.phase_tolerance = x[1], !.tempo_tolerance = x[2]]>> :
        x \in {<<1, 4>>, <<1, 1>>} \X {<<1, 4>>, <<1, 1>>}}

ContinuityCalls ==
    {<<"continuity",
       [BaseParams EXCEPT !.phase_tolerance = x[1][1], !.tempo_tolerance = x[1][2],
                          !.offbeat = x[2], !.double = x[3], !.triple = x[4]]>> :
        x \in ({<<<<1, 4>>, <<1, 1>>>>} \X BOOLEAN \X BOOLEAN \X BOOLEAN)
              \cup ({<<<<1, 2>>, <<1, 2>>>>, <<<<1, 1>>, <<1, 4>>>>}
                      \X {TRUE} \X {TRUE} \X {TRUE})}

InitCml ==
    \E d \in CmlSeqs, a \in CmlSeqs, c \in CmlCalls \cup ContinuityCalls :
        Called(c[1], d, a, c[2])

NextCml == CallCml \/ CallContinuity

SpecCml == InitCml /\ [][NextCml]_vars

InitContinuity ==
    \E d \in CmlSeqs, a \in CmlSeqs, c \in ContinuityCalls : Called(c[1], d, a, c[2])

NextContinuity == CallContinuity

SpecContinuity == InitContinuity /\ [][NextContinuity]_vars

(* ------------------------ claims: cml and continuity ------------------- *)

\* C5: continuity's first two values (CMLc, CMLt) are exactly the pair that
\* cml returns for the same detections, annotations, phase tolerance and
\* tempo tolerance.
ContinuityAgreesWithCml ==
    (call = "continuity" /\ pc = "done"
       /\ Len(detections) > 0 /\ Len(annotations) > 0) =>
      LET r == Cml(detections, annotations, params.phase_tolerance,
                   params.tempo_tolerance)
      IN r.raised = "none" /\ <<result[1], result[2]>> = r.value

\* C6: whenever continuity returns, AMLc >= CMLc and AMLt >= CMLt, also
\* when a metrical variant is too short to be evaluated (nan).
AmlAtLeastCml ==
    (call = "continuity" /\ pc = "done") =>
      /\ IsRat(result[3]) /\ IsRat(result[4])
      /\ RatLe(result[1], result[3])
      /\ RatLe(result[2], result[4])

\* a variant of one event gave nan
SomeVariantTooShort ==
    \E i \in 1..Len(Variations(annotations, params.offbeat, params.double, params.double, params.triple, params.triple)) :
        Len(Variations(annotations, params.offbeat, params.double, params.double, params.triple, params.triple)[i]) = 1

\* continuity found a better score at another metrical level although one
\* of the variants could not be evaluated
AmlAboveCmlDespiteNan ==
    /\ call = "continuity" /\ pc = "done"
    /\ Len(detections) >= 2 /\ Len(annotations) >= 2
    /\ SomeVariantTooShort
    /\ RatLt(result[1], result[3])
    /\ RatLt(result[2], result[4])

\* the detection positions (1-based) that pass both tests of cml
CorrectPositions ==
    LET closest == FindClosestMatches(detections, annotations)
        det_interval == CalcIntervals(detections, FALSE)
        ann_interval == CalcIntervals(annotations, FALSE)
    IN {i \in 1..Len(detections) :
          LET a == ann_interval[closest[i] + 1]
              err == Abs(detections[i] - annotations[closest[i] + 1])
              ratio == FloatDiv(det_interval[i], a)
          IN /\ err * params.phase_tolerance[2] <= params.phase_tolerance[1] * a
             /\ IsRat(ratio)
             /\ Abs(ratio[2] - ratio[1]) * params.tempo_tolerance[2]
                  <= params.tempo_tolerance[1] * ratio[2]}

\* the length of the longest run of consecutive positions in the set S
LongestRunIn(S) ==
    IF S = {} THEN 0
    ELSE SetMax({n \in 1..Cardinality(S) :
                   \E i \in S : \A k \in 0..(n - 1) : (i + k) \in S})

\* C7: for sorted detections (duplicates permitted) and annotations of at
\* least 2 events each, CMLt times max(len(detections), len(annotations)) is
\* the number of detection positions that are phase- and tempo-correct and
\* CMLc times it the longest run of consecutive such positions.
CmlCountsPositions ==
    (call = "cml" /\ pc = "done"
       /\ Len(detections) >= 2 /\ Len(annotations) >= 2) =>
      LET length == Max2(Len(detections), Len(annotations))
      IN /\ result[2] = <<Cardinality(CorrectPositions), length>>
         /\ result[1] = <<LongestRunIn(CorrectPositions), length>>

(* ----------------------- claims: parameters and shortcuts -------------- *)

\* the call was given a parameter outside its valid range
InvalidParameter ==
    CASE call = "onset_evaluation" -> params.window <= 0
      [] call = "pscore" -> params.tolerance[1] <= 0
      [] call = "cemgil" -> params.sigma[1] <= 0
      [] call = "goto" ->
           params.threshold[1] <= 0 \/ params.sigma[1] <= 0 \/ params.mu[1] <= 0
      [] call \in {"cml", "continuity"} ->
           params.phase_tolerance[1] <= 0 \/ params.tempo_tolerance[1] <= 0
      [] call = "information_gain" -> params.num_bins % 2 = 1 \/ params.num_bins < 2

\* C3 as stated: every scoring function called with an invalid parameter
\* fails with ValueError for every pair of input sequences, including empty
\* ones, and returns no score.
InvalidParameterAlwaysRejected ==
    (pc # "call" /\ InvalidParameter) => (pc = "raised" /\ raised = "ValueError")

\* the inputs get past the function's shortcuts for empty sequences and its
\* check of the number of events
PastShortcuts ==
    /\ Len(detections) > 0 /\ Len(annotations) > 0
    /\ call \in {"pscore", "goto"} => Len(annotations) >= 2
    /\ call \in {"cml", "continuity", "information_gain"} =>
         (Len(detections) >= 2 /\ Len(annotations) >= 2)

\* C3 amended: an invalid parameter is rejected with ValueError, and no
\* score is returned, whenever the inputs get past the function's
\* empty-sequence shortcuts and its event-count check; with an empty
\* sequence an invalid tolerance or window goes unnoticed and the shortcut
\* result is returned.
InvalidParameterRejectedPastShortcuts ==
    /\ (pc # "call" /\ InvalidParameter /\ PastShortcuts) =>
         (pc = "raised" /\ raised = "ValueError" /\ result = <<>>)
    /\ (pc # "call" /\ InvalidParameter /\ call # "information_gain"
          /\ (Len(detections) = 0 \/ Len(annotations) = 0)) =>
         (pc = "done" /\ raised = "none")

\* an odd number of bins was rejected on sequences of two events each
OddBinsRejected ==
    /\ call = "information_gain" /\ params.num_bins = 3
    /\ Len(detections) >= 2 /\ Len(annotations) >= 2
    /\ pc = "raised" /\ raised = "ValueError"

ValidTolerances ==
    CASE call = "pscore" -> params.tolerance[1] > 0
      [] call = "cemgil" -> params.sigma[1] > 0
      [] call = "goto" ->
           params.threshold[1] > 0 /\ params.sigma[1] > 0 /\ params.mu[1] > 0
      [] call \in {"cml", "continuity"} ->
           params.phase_tolerance[1] > 0 /\ params.tempo_tolerance[1] > 0
      [] OTHER -> FALSE

Arity == [pscore |-> 1, cemgil |-> 1, goto |-> 1, cml |-> 2, continuity |-> 4]

\* the score x repeated as the function's result shape
Score(f, x) == IF Arity[f] = 1 THEN x ELSE [i \in 1..Arity[f] |-> x]

\* C4: with valid tolerances pscore, cemgil, goto, cml and continuity return
\* the perfect score (1.0 or a tuple of 1.0s) when both sequences are empty
\* and the zero score when exactly one is empty, whatever the length of the
\* other; no interval error is raised.
EmptyInputScores ==
    (pc # "call" /\ call \in DOMAIN Arity /\ ValidTolerances) =>
      /\ (Len(detections) = 0 /\ Len(annotations) = 0) =>
           (pc = "done" /\ raised = "none" /\ result = Score(call, <<1, 1>>))
      /\ ((Len(detections) = 0) # (Len(annotations) = 0)) =>
           (pc = "done" /\ raised = "none" /\ result = Score(call, <<0, 1>>))

\* continuity returned zeros for a single detection against no annotation
ZeroForSingleDetection ==
    /\ call = "continuity" /\ pc = "done"
    /\ Len(detections) = 1 /\ Len(annotations) = 0
    /\ result = <<Zero, Zero, Zero, Zero>>
    /\ params.phase_tolerance[1] > 0 /\ params.tempo_tolerance[1] > 0

(* ----------------------------- claims: onsets -------------------------- *)

ScanPending ==
    /\ pc = "scan"
    /\ det_index < Len(detections) /\ ann_index < Len(annotations)

\* C1: onset_evaluation never raises AssertionError: whenever the current
\* detection and annotation are not within the window exactly one of
\* det < ann, det > ann holds, and on return len(tp) + len(fp) =
\* len(detections), len(tp) + len(fn) = len(annotations) and len(tp) =
\* len(errors).
OnsetNeverAsserts ==
    /\ raised # "AssertionError"
    /\ ScanPending =>
         LET d == det[det_index + 1]
             a == ann[ann_index + 1]
         IN Abs(d - a) > params.window => ((d < a) # (d > a))
    /\ (call = "onset_evaluation" /\ pc = "done") =>
         /\ Len(result.tp) + Len(result.fp) = Len(detections)
         /\ Len(result.tp) + Len(result.fn) = Len(annotations)
         /\ Len(result.tp) = Len(result.errors)

\* a scan that produced all three classes has returned
OnsetMixedReturn ==
    /\ call = "onset_evaluation" /\ pc = "done" /\ params.window > 0
    /\ result.tp # <<>> /\ result.fp # <<>> /\ result.fn # <<>>
    /\ det_index < Len(detections)

\* what one iteration of the scan does to the pointers and the outputs
GreedyStep ==
    ScanPending =>
      LET d == det[det_index + 1]
          a == ann[ann_index + 1]
      IN IF Abs(d - a) <= params.window
           THEN /\ tp' = Append(tp, d) /\ errors' = Append(errors, d - a)
                /\ det_index' = det_index + 1 /\ ann_index' = ann_index + 1
                /\ fp' = fp /\ fn' = fn
         ELSE IF d < a
           THEN /\ fp' = Append(fp, d) /\ det_index' = det_index + 1
                /\ ann_index' = ann_index /\ tp' = tp /\ fn' = fn
                /\ errors' = errors
         ELSE /\ fn' = Append(fn, a) /\ ann_index' = ann_index + 1
              /\ det_index' = det_index /\ tp' = tp /\ fp' = fp
              /\ errors' = errors

ErrorsWithinWindow ==
    /\ \A i \in 1..Len(errors) : Abs(errors[i]) <= params.window
    /\ (pc = "scan" /\ det_index = 0 /\ ann_index = 0) =>
         (tp = <<>> /\ fp = <<>> /\ fn = <<>> /\ errors = <<>>)

TestVectorResults ==
    (pc = "done" /\ detections = TEST_DETECTIONS
       /\ annotations = TEST_ANNOTATIONS) =>
      IF params.window = 40000000
        THEN /\ result.tp = <<-10, 29999990, 1010000000, 1020000000,
                              1500000000, 2025000001>>
             /\ result.fp = <<450000000>>
             /\ result.fn = <<500000000, 1050000000>>
             /\ result.errors = <<-10, 9999990, 10000000, -10000000, 0,
                                  25000001>>
      ELSE /\ result.tp = <<-10, 29999990, 1010000000, 1020000000,
                            1500000000>>
           /\ result.fp = <<450000000, 2025000001>>
           /\ result.fn = <<500000000, 1050000000, 2000000000>>
           /\ result.errors = <<-10, 9999990, 10000000, -10000000, 0>>

\* C2: onset_evaluation classifies by an in-order greedy scan from both
\* pointers at 0: a true positive (both pointers advance, error d - a) iff
\* |d - a| <= window, else a false positive if d < a (detection pointer
\* advances), else a false negative (annotation pointer advances); every
\* error is within the window; the unit test's sequences give the stated
\* results for the windows 0.01, 0.025 and 0.04.
OnsetGreedyScan ==
    /\ [][GreedyStep]_vars
    /\ []ErrorsWithinWindow
    /\ []TestVectorResults

\* the unit test's sequences evaluated with the window 0.04
OnsetTestWideWindow ==
    /\ pc = "done" /\ detections = TEST_DETECTIONS
    /\ annotations = TEST_ANNOTATIONS /\ params.window = 40000000
    /\ Len(result.tp) = 6

(* --------------------------- calls of pscore --------------------------- *)

PscoreCalls ==
    {<<"pscore", [BaseParams EXCEPT !.tolerance = x]>> :
        x \in {<<1, 100>>, <<1, 4>>, <<1, 1>>}}

InitPscore ==
    \E d \in BeatSeqs, a \in BeatSeqs, c \in PscoreCalls : Called(c[1], d, a, c[2])

NextPscore == CallPscore

SpecPscore == InitPscore /\ [][NextPscore]_vars

(* ---------------------------- calls of goto ---------------------------- *)
\* latest event time (in ticks) and most detections of these calls
GotoMaxTime == 4
GotoMaxDet == 2

GotoTimes == {Tick * t : t \in 0..GotoMaxTime}

\* annotations without duplicates, of up to GotoMaxTime + 1 events, and the
\* short sequences with duplicates
GotoAnnotations == {SetToSortedSeq(S) : S \in SUBSET GotoTimes} \cup ShortSeqs

GotoDetections == {s \in SeqsUpTo(GotoMaxDet, GotoTimes) : IsSorted(s)}

GotoCalls ==
    {<<"goto", [BaseParams EXCEPT !.threshold = x[1], !.sigma = x[2], !.mu = x[3]]>> :
        x \in {<< <<1, 2>>, <<1, 2>>, <<1, 2>> >>, << <<1, 2>>, <<1, 4>>, <<1, 2>> >>,
               << <<1, 2>>, <<1, 2>>, <<1, 4>> >>, << <<1, 4>>, <<1, 2>>, <<1, 2>> >>}}

InitGoto ==
    \E d \in GotoDetections, a \in GotoAnnotations, c \in GotoCalls :
        Called(c[1], d, a, c[2])

NextGoto == CallGoto

SpecGoto == InitGoto /\ [][NextGoto]_vars

(* ----------------------- calls of information_gain --------------------- *)

InformationGainCalls ==
    {<<"information_gain", [BaseParams EXCEPT !.num_bins = n]>> : n \in {2, 4}}

InitInformationGain ==
    \E d \in BeatSeqs, a \in BeatSeqs, c \in InformationGainCalls :
        Called(c[1], d, a, c[2])

NextInformationGain == CallInformationGain

SpecInformationGain == InitInformationGain /\ [][NextInformationGain]_vars

(* ----------------------------- claims: pscore -------------------------- *)

\* C8: for every sorted sequence x of at least 2 events (duplicates
\* permitted) and every tolerance > 0, pscore(x, x) is 1.0, also when the
\* median annotation interval, and with it the window, is 0.
PerfectSelfMatch ==
    (call = "pscore" /\ pc # "call" /\ detections = annotations
       /\ Len(annotations) >= 2 /\ params.tolerance[1] > 0) =>
      (pc = "done" /\ raised = "none" /\ RatEq(result, One))

\* a sequence of equal event times, whose window is 0, scored against
\* itself
SelfMatchZeroWindow ==
    /\ call = "pscore" /\ pc = "done"
    /\ detections = annotations /\ Len(annotations) >= 2
    /\ annotations[1] = annotations[Len(annotations)]
    /\ RatEq(result, One)

(* ------------------------------ claims: goto --------------------------- *)

\* rationals in lowest terms
Norm(x) ==
    LET g == Gcd(Abs(x[1]), x[2]) IN IF g = 0 THEN x ELSE <<x[1] \div g, x[2] \div g>>

RatAdd(x, y) == Norm(<<x[1] * y[2] + y[1] * x[2], x[2] * y[2]>>)

RatSub(x, y) == RatAdd(x, <<-y[1], y[2]>>)

RatMul(x, y) == Norm(<<x[1] * y[1], x[2] * y[2]>>)

RatAbs(x) == <<Abs(x[1]), x[2]>>

RECURSIVE RatSum(_)
RatSum(s) == IF s = <<>> THEN <<0, 1>> ELSE RatAdd(Head(s), RatSum(Tail(s)))

Mean(s) == RatMul(RatSum(s), <<1, Len(s)>>)

\* the population variance: the mean of the squared deviations from the mean
Variance(s) ==
    LET m == Mean(s)
    IN Mean(Array([i \in 1..Len(s) |-> RatMul(RatSub(s[i], m), RatSub(s[i], m))]))

\* for every annotation, in order, the index of its closest detection, kept
\* if the relative error of that detection is within the threshold
PassingMatches ==
    LET errs == CalcRelativeErrors(detections, annotations)
    IN SelectSeq(FindClosestMatches(annotations, detections),
                 LAMBDA c : IsRat(errs[c + 1])
                            /\ RatLe(RatAbs(errs[c + 1]), params.threshold))

\* the n matches from position i on follow each other without a gap
IsRun(m, i, n) == \A k \in 0..(n - 2) : m[i + k + 1] = m[i + k] + 1

LongestRun(m) ==
    IF m = <<>> THEN 0
    ELSE SetMax({n \in 1..Len(m) : \E i \in 1..(Len(m) - n + 1) : IsRun(m, i, n)})

\* the relative errors of the detections in the first run of the greatest
\* length
LongestRunErrors ==
    LET m == PassingMatches
        n == LongestRun(m)
        i == SetMin({j \in 1..(Len(m) - n + 1) : IsRun(m, j, n)})
        errs == CalcRelativeErrors(detections, annotations)
    IN Array([k \in 1..n |-> errs[m[i + k - 1] + 1]])

MeanAbsWithin(es, mu) ==
    RatLe(Mean(Array([k \in 1..Len(es) |-> RatAbs(es[k])])), mu)

StdWithin(es, sigma) == RatLe(Variance(es), RatMul(sigma, sigma))

GotoConditions ==
    /\ 4 * LongestRun(PassingMatches) >= Len(annotations)
    /\ LET es == LongestRunErrors
       IN MeanAbsWithin(es, params.mu) /\ StdWithin(es, params.sigma)

\* C9: with both sequences non-empty, at least 2 annotations and positive
\* parameters, goto returns 1.0 if and only if the longest run of
\* threshold-passing matches has at least 0.25 * len(annotations) matches,
\* the mean of the absolute relative errors in the run is at most mu and
\* the standard deviation of the signed relative errors in the run is at
\* most sigma; otherwise it returns 0.0.
GotoThreeConditions ==
    (call = "goto" /\ pc # "call" /\ Len(detections) > 0
       /\ Len(annotations) >= 2 /\ ValidTolerances) =>
      /\ pc = "done" /\ raised = "none"
      /\ result \in {Zero, One}
      /\ (result = One) <=> GotoConditions

\* goto gave 0.0 for a long enough run with a small mean absolute error
\* whose signed errors are spread wider than sigma
GotoRejectsSpread ==
    /\ call = "goto" /\ pc = "done" /\ result = Zero
    /\ Len(detections) > 0 /\ Len(annotations) >= 2
    /\ 4 * LongestRun(PassingMatches) >= Len(annotations)
    /\ MeanAbsWithin(LongestRunErrors, params.mu)
    /\ ~StdWithin(LongestRunErrors, params.sigma)

(* ------------------------ claims: information_gain --------------------- *)

\* C10: information_gain returns the lower of the forward (detections
\* against annotations) and the backward (annotations against detections)
\* information gain together with the histogram that value was computed
\* from, and with the backward histogram when the two values are equal.
LowerGainWithItsHistogram ==
    (call = "information_gain" /\ pc = "done"
       /\ Len(detections) >= 2 /\ Len(annotations) >= 2) =>
      LET fwd_histogram == ErrorHistogram(detections, annotations, params.num_bins)
          bwd_histogram == ErrorHistogram(annotations, detections, params.num_bins)
          fwd_ig == InformationGainOf(fwd_histogram)
          bwd_ig == InformationGainOf(bwd_histogram)
      IN /\ RatLe(result.ig, fwd_ig) /\ RatLe(result.ig, bwd_ig)
         /\ RatLt(fwd_ig, bwd_ig) =>
              (result.ig = fwd_ig /\ result.histogram = AsFloats(fwd_histogram))
         /\ RatLt(bwd_ig, fwd_ig) =>
              (result.ig = bwd_ig /\ result.histogram = AsFloats(bwd_histogram))
         /\ RatEq(fwd_ig, bwd_ig) => result.histogram = AsFloats(bwd_histogram)

\* the forward information gain was the lower one and its histogram, which
\* differs from the backward one, was returned
ForwardGainReturned ==
    /\ call = "information_gain" /\ pc = "done"
    /\ Len(detections) >= 2 /\ Len(annotations) >= 2
    /\ RatLt(result.ig,
             InformationGainOf(ErrorHistogram(annotations, detections, params.num_bins)))
    /\ result.histogram
         = AsFloats(ErrorHistogram(detections, annotations, params.num_bins))
    /\ result.histogram
         # AsFloats(ErrorHistogram(annotations, detections, params.num_bins))

(* ------------------ claims: short inputs of information_gain ----------- *)

\* C11: information_gain (with a bin count num_bins >= 0) treats short
\* inputs in this order: both sequences empty give (log2(num_bins), a
\* histogram of num_bins zeros); exactly one empty gives (0, a histogram of
\* num_bins entries max(len(detections), len(annotations)) / num_bins), also
\* for a single event; both non-empty with fewer than 2 detections or 2
\* annotations raise BeatIntervalError; and num_bins > len(annotations) only
\* warns: the call still returns a result.
InformationGainShortInputs ==
    (call = "information_gain" /\ pc # "call" /\ params.num_bins >= 0) =>
      LET nd == Len(detections)
          na == Len(annotations)
          nb == params.num_bins
      IN /\ (nd = 0 /\ na = 0) =>
              /\ pc = "done" /\ raised = "none"
              /\ result.ig = (IF nb = 0 THEN NegInf ELSE <<Log2Micro(nb), 1>>)
              /\ Len(result.histogram) = nb
              /\ \A i \in 1..nb : result.histogram[i] = <<0, 1>>
         /\ ((nd = 0) # (na = 0)) =>
              /\ pc = "done" /\ raised = "none"
              /\ result.ig = <<0, 1>>
              /\ Len(result.histogram) = nb
              /\ \A i \in 1..nb : RatEq(result.histogram[i], <<Max2(nd, na), nb>>)
         /\ (nd > 0 /\ na > 0 /\ (nd < 2 \/ na < 2)) =>
              (pc = "raised" /\ raised = "BeatIntervalError")
         /\ (nd >= 2 /\ na >= 2 /\ nb >= 2 /\ nb % 2 = 0
               /\ TooFewAnnotationsForBins(annotations, nb)) =>
              (pc = "done" /\ raised = "none" /\ Len(result.histogram) = nb)

\* a single detection against no annotation gave the uniform histogram
UniformHistogramForSingleEvent ==
    /\ call = "information_gain" /\ pc = "done"
    /\ Len(detections) = 1 /\ Len(annotations) = 0 /\ params.num_bins = 4
    /\ result.ig = <<0, 1>>
    /\ \A i \in 1..4 : RatEq(result.histogram[i], <<1, 4>>)

(* ---------------- claims: information_gain of equal sequences ---------- *)

StrictlyIncreasing(s) == \A i \in 1..(Len(s) - 1) : s[i] < s[i + 1]

SegMaxLen == 5
SegMaxIndex == 3

\* the two sequences of the documentation
SEGMENT_EXAMPLES == {<<5, 6, 7, 10, 11>>, <<5, 6, 7, 10, 11, 12, 13>>}

IndexSeqs == SeqsUpTo(SegMaxLen, 0..SegMaxIndex) \cup SEGMENT_EXAMPLES

CallFindLongestContinuousSegment ==
    /\ pc = "call" /\ call = "find_longest_continuous_segment"
    /\ \E r \in {Ret(FindLongestContinuousSegment(params.sequence_indices))} : Finish(r)

InitSegment ==
    \E s \in IndexSeqs :
        Called("find_longest_continuous_segment", <<>>, <<>>, [sequence_indices |-> s])

NextSegment == CallFindLongestContinuousSegment

SpecSegment == InitSegment /\ [][NextSegment]_vars

(* --------------- claims: find_longest_continuous_segment --------------- *)

\* C13: for a non-empty integer sequence find_longest_continuous_segment
\* returns the length of the longest run in which every entry is 1 greater
\* than its predecessor and the offset at which the first run of that length
\* starts; [5,6,7,10,11] gives (3, 0) and [5,6,7,10,11,12,13] gives (4, 3).
LongestSegmentIsFirstLongestRun ==
    (call = "find_longest_continuous_segment" /\ pc # "call"
       /\ Len(params.sequence_indices) > 0) =>
      LET s == params.sequence_indices
          n == LongestRun(s)
      IN /\ pc = "done" /\ raised = "none"
         /\ result.length = n
         /\ IsRun(s, result.start_pos + 1, n)
         /\ \A j \in 1..result.start_pos : ~IsRun(s, j, n)
         /\ s = <<5, 6, 7, 10, 11>> => result = [length |-> 3, start_pos |-> 0]
         /\ s = <<5, 6, 7, 10, 11, 12, 13>> => result = [length |-> 4, start_pos |-> 3]

\* two runs of the greatest length: the first one was returned
FirstOfTwoLongestRuns ==
    /\ call = "find_longest_continuous_segment" /\ pc = "done"
    /\ params.sequence_indices = <<0, 1, 3, 0, 1>>
    /\ result = [length |-> 2, start_pos |-> 0]

(* --------------------------- calls of variations ----------------------- *)
\* longest sequence and latest event time (in ticks) of these calls
VarMaxLen == 3
VarMaxTime == 2

\* the beat sequences given to variations, unsorted ones included
VariationInputs == SeqsUpTo(VarMaxLen, {Tick * t : t \in 0..VarMaxTime})

CallVariations ==
    /\ pc = "call" /\ call = "variations"
    /\ \E r \in {Ret(Variations(params.sequence, params.offbeat, params.double, params.half, params.triple, params.third))} : Finish(r)

InitVariations ==
    \E s \in VariationInputs, f \in [{"offbeat", "double", "half", "triple", "third"} -> BOOLEAN] :
        Called("variations", <<>>, <<>>,
               [sequence |-> s, offbeat |-> f.offbeat, double |-> f.double,
                half |-> f.half, triple |-> f.triple, third |-> f.third])

NextVariations == CallVariations

SpecVariations == InitVariations /\ [][NextVariations]_vars

(* ----------------------------- claims: variations ---------------------- *)

SameSeq(a, b) == Len(a) = Len(b) /\ \A i \in 1..Len(a) : a[i] = b[i]

\* the events half way between neighbours
OffbeatOf(s) == [i \in 1..(Len(s) - 1) |-> (s[i] + s[i + 1]) \div 2]

\* the events and the events half way between them, in turn
DoubleOf(s) ==
    [k \in 1..(2 * Len(s) - 1) |->
        IF k % 2 = 1 THEN s[(k + 1) \div 2]
        ELSE (s[k \div 2] + s[k \div 2 + 1]) \div 2]

\* the events and the two events that divide each gap in three, in turn
TripleOf(s) ==
    [k \in 1..(3 * Len(s) - 2) |->
        LET q == (k - 1) \div 3
            r == (k - 1) % 3
        IN IF r = 0 THEN s[q + 1]
           ELSE ((3 - r) * s[q + 1] + r * s[q + 2]) \div 3]

\* every n-th event, from the event with the 0-based position offset on
EveryNth(s, n, offset) ==
    [i \in 1..((Len(s) - offset + n - 1) \div n) |-> s[n * (i - 1) + offset + 1]]

\* the sequences the flags ask for, in their order
RequestedVariations(s, f) ==
    (IF f.offbeat THEN <<OffbeatOf(s)>> ELSE <<>>)
    \o (IF f.double THEN <<DoubleOf(s)>> ELSE <<>>)
    \o (IF f.half THEN <<EveryNth(s, 2, 0), EveryNth(s, 2, 1)>> ELSE <<>>)
    \o (IF f.triple THEN <<TripleOf(s)>> ELSE <<>>)
    \o (IF f.third THEN <<EveryNth(s, 3, 0), EveryNth(s, 3, 1), EveryNth(s, 3, 2)>>
        ELSE <<>>)

\* C14: for every input sequence, the empty one included, and every
\* combination of flags, variations returns without raising exactly
\* [offbeat: 1] + [double: 1] + [half: 2] + [triple: 1] + [third: 3]
\* sequences in the order offbeat, double, half-even, half-odd, triple,
\* third-offset-0, third-offset-1, third-offset-2; for an empty input every
\* returned sequence is empty.
VariationsInFixedOrder ==
    (call = "variations" /\ pc # "call") =>
      LET expected == RequestedVariations(params.sequence, params)
          count == (IF params.offbeat THEN 1 ELSE 0) + (IF params.double THEN 1 ELSE 0)
                     + (IF params.half THEN 2 ELSE 0) + (IF params.triple THEN 1 ELSE 0)
                     + (IF params.third THEN 3 ELSE 0)
      IN /\ pc = "done" /\ raised = "none"
         /\ Len(result) = count /\ Len(expected) = count
         /\ \A k \in 1..count : SameSeq(result[k], expected[k])
         /\ params.sequence = <<>> => \A k \in 1..count : Len(result[k]) = 0

\* all eight variations of a sequence of three events
AllEightVariations ==
    /\ call = "variations" /\ pc = "done"
    /\ params.sequence = <<0, 6, 12>>
    /\ params.offbeat /\ params.double /\ params.half /\ params.triple /\ params.third
    /\ SameSeq(result[1], <<3, 9>>) /\ SameSeq(result[2], <<0, 3, 6, 9, 12>>)
    /\ SameSeq(result[3], <<0, 12>>) /\ SameSeq(result[4], <<6>>)
    /\ SameSeq(result[5], <<0, 2, 4, 6, 8, 10, 12>>)
    /\ SameSeq(result[6], <<0>>) /\ SameSeq(result[7], <<6>>) /\ SameSeq(result[8], <<12>>)

(* ============ onsets.py, beats.py: the evaluation classes ============== *)

\* lines 120-159 of onset_evaluation as one computation: the scan from the
\* pointers di, ai on, with the arrays collected so far in acc
RECURSIVE OnsetScanFrom(_, _, _, _, _, _)
OnsetScanFrom(d, a, window, di, ai, acc) ==
    IF di < Len(d) /\ ai < Len(a)
      THEN IF WithinWindow(d[di + 1], a[ai + 1], window)
             THEN OnsetScanFrom(d, a, window, di + 1, ai + 1,
                                [acc EXCEPT !.tp = Append(@, d[di + 1]),
                                            !.errors = Append(@, d[di + 1] - a[ai + 1])])
           ELSE IF d[di + 1] < a[ai + 1]
             THEN OnsetScanFrom(d, a, window, di + 1, ai,
                                [acc EXCEPT !.fp = Append(@, d[di + 1])])
           ELSE IF d[di + 1] > a[ai + 1]
             THEN OnsetScanFrom(d, a, window, di, ai + 1,
                                [acc EXCEPT !.fn = Append(@, a[ai + 1])])
           ELSE Raise("AssertionError")
    ELSE LET fp2 == acc.fp \o RemainingDetections(d, di)
             fn2 == acc.fn \o SliceFrom(a, ai)
         IN IF \/ Len(acc.tp) + Len(fp2) # Len(d)
               \/ Len(acc.tp) + Len(fn2) # Len(a)
               \/ Len(acc.tp) # Len(acc.errors)
              THEN Raise("AssertionError")
            ELSE Ret(OnsetResult(acc.tp, fp2, fn2, acc.errors))

\* lines 80-161 of onsets.py: onset_evaluation as one computation
OnsetEvaluationOf(dets, annots, window) ==
    IF Len(dets) = 0 /\ Len(annots) = 0
      THEN Ret(OnsetResult(<<>>, <<>>, <<>>, <<>>))
    ELSE IF Len(annots) = 0 THEN Ret(OnsetResult(<<>>, dets, <<>>, <<>>))
    ELSE IF Len(dets) = 0 THEN Ret(OnsetResult(<<>>, <<>>, annots, <<>>))
    ELSE IF WindowInvalid(window) THEN Raise("ValueError")
    ELSE OnsetScanFrom(Sort(dets), Sort(annots), window, 0, 0,
                       [tp |-> <<>>, fp |-> <<>>, fn |-> <<>>, errors |-> <<>>])

\* onsets.py lines 42-45, beats.py lines 70-73: np.array(values,
\* dtype=np.float, ndmin=1, copy=False) is the caller's array itself when
\* that is a float array, and a new array when the caller gave a list
LoadsTheSameArray(kind) == kind = "ndarray"

\* onsets.py line 193: detections += delay
Shifted(s, delay) == Array([i \in 1..Len(s) |-> s[i] + delay])

\* onsets.py lines 185-200, OnsetEvaluation.__init__ with combine <= 0: the
\* array detections after line 193 and the outcome of the evaluation
OnsetEvaluationInit(dets, annots, window, delay) ==
    LET shifted == IF delay # 0 THEN Shifted(dets, delay) ELSE dets
    IN [detections |-> shifted,
        outcome |-> OnsetEvaluationOf(shifted, annots, window)]

\* beats.py lines 863-867: the events after the first skip seconds of a
\* sorted sequence
SkipFirst(s, skip) ==
    IF skip > 0 THEN SelectSeq(s, LAMBDA x : x > skip) ELSE s

\* an object filled with whatever each step left, exceptions dropped
ValuesDespiteRaised(outcomes, values) ==
    Ret(values \o [i \in 1..Len(outcomes) |-> outcomes[i].value])

\* the first exception among the outcomes, or all their values
RECURSIVE AllOrFirstRaised(_, _)
AllOrFirstRaised(outcomes, values) ==
    IF outcomes = <<>> THEN Ret(values)
    ELSE IF Head(outcomes).raised # "none" THEN Raise(Head(outcomes).raised)
    ELSE AllOrFirstRaised(Tail(outcomes), Append(values, Head(outcomes).value))

\* beats.py lines 853-887, BeatEvaluation.__init__: the sorted copies, the
\* onset evaluation of the base class, which shifts the sorted detections
\* in place, and the scores in the order in which they are computed
BeatEvaluationInit(dets, annots, p) ==
    LET a == SkipFirst(Sort(annots), p.skip)
        onset == OnsetEvaluationInit(SkipFirst(Sort(dets), p.skip), a,
                                     p.fmeasure_window, p.delay)
        d == onset.detections
    IN AllOrFirstRaised(
         <<onset.outcome,
           Pscore(d, a, p.pscore_tolerance),
           Cemgil(d, a, p.cemgil_sigma),
           Goto(d, a, p.goto_threshold, p.goto_sigma, p.goto_mu),
           Continuity(d, a, p.continuity_tempo_tolerance,
                      p.continuity_phase_tolerance, p.offbeat, p.double, p.triple),
           InformationGain(d, a, p.information_gain_bins)>>,
         <<>>)

\* onsets.py lines 185-200: OnsetEvaluation(detections, annotations, window,
\* combine, delay); the shift of line 193 acts on the caller's array when
\* load_onsets returned that array
CallOnsetEvaluationInit ==
    /\ pc = "call" /\ call = "OnsetEvaluation"
    /\ \E r \in {OnsetEvaluationInit(detections, annotations, params.window, params.delay)} :
         /\ caller' = IF LoadsTheSameArray(params.kind)
                        THEN [caller EXCEPT !.detections = r.detections]
                      ELSE caller
         /\ pc' = IF r.outcome.raised = "none" THEN "done" ELSE "raised"
         /\ result' = r.outcome.value
         /\ raised' = r.outcome.raised
    /\ UNCHANGED <<detections, annotations, call, params, tie, scan, searched>>

\* beats.py lines 809-887: BeatEvaluation(detections, annotations, ...);
\* np.sort copies, so the shift acts on the copy
CallBeatEvaluationInit ==
    /\ pc = "call" /\ call = "BeatEvaluation"
    /\ \E r \in {BeatEvaluationInit(detections, annotations, params)} : Finish(r)

(* -------------------- calls of the evaluation entry points ------------- *)
\* longest sequence and latest event time (in ticks) of these calls
EntryMaxLen == 2
EntryMaxTime == 2

\* the sequences given to the entry points, unsorted ones included
EntrySeqs == SeqsUpTo(EntryMaxLen, {Tick * t : t \in 0..EntryMaxTime})

\* what the caller passes: a Python list or a numpy array of floats
Kinds == {"list", "ndarray"}

\* the arguments of OnsetEvaluation and BeatEvaluation, the tolerances at
\* the values of BaseParams
ClassParams(kind, window, delay, skip) ==
    [kind |-> kind, window |-> window, fmeasure_window |-> window,
     combine |-> 0, delay |-> delay, skip |-> skip,
     pscore_tolerance |-> BaseParams.tolerance, cemgil_sigma |-> BaseParams.sigma,
     goto_threshold |-> BaseParams.threshold, goto_sigma |-> BaseParams.sigma,
     goto_mu |-> BaseParams.mu,
     continuity_phase_tolerance |-> BaseParams.phase_tolerance,
     continuity_tempo_tolerance |-> BaseParams.tempo_tolerance,
     information_gain_bins |-> BaseParams.num_bins,
     offbeat |-> TRUE, double |-> TRUE, triple |-> TRUE]

EntryCalls ==
    {<<"onset_evaluation", ClassParams(k, w, 0, 0)>> : k \in Kinds, w \in {0, Tick}}
    \cup {<<"OnsetEvaluation", ClassParams(k, w, d, 0)>> :
            k \in Kinds, w \in {0, Tick}, d \in {-Tick, 0, Tick}}
    \cup {<<"BeatEvaluation", ClassParams("ndarray", Tick, d, s)>> :
            d \in {0, Tick}, s \in {0, Tick}}

InitEntry ==
    \E d \in EntrySeqs, a \in EntrySeqs, c \in EntryCalls : Called(c[1], d, a, c[2])

NextEntry ==
    \/ OnsetEnter \/ OnsetScan \/ OnsetFinish
    \/ CallOnsetEvaluationInit \/ CallBeatEvaluationInit

SpecEntry == InitEntry /\ [][NextEntry]_vars

(* ------------------- claims: the caller's sequences -------------------- *)

\* C15: no evaluation entry point changes the sequences the caller passed:
\* after onset_evaluation, OnsetEvaluation(...) or BeatEvaluation(...)
\* returns or raises, the caller's detections and annotations hold the
\* values they held at the call, in the same order, also for delay != 0 and
\* for unsorted input.
CallerSequencesIntact ==
    caller = [detections |-> detections, annotations |-> annotations]

(* ========================= calls of calc_intervals ===================== *)

IvMaxLen == 3
IvMaxTime == 3

\* lines 161-174 of calc_intervals
CalcIntervalsOf(events, fwd) ==
    IF Len(events) < 2 THEN Raise("BeatIntervalError")
    ELSE Ret(CalcIntervals(events, fwd))

\* the event sequences handed to calc_intervals: any order, repeated times
\* included
IntervalInputs == SeqsUpTo(IvMaxLen, 0..IvMaxTime)

CallCalcIntervals ==
    /\ pc = "call" /\ call = "calc_intervals"
    /\ \E r \in {CalcIntervalsOf(params.events, params.fwd)} : Finish(r)

InitIntervals ==
    \E e \in IntervalInputs, f \in BOOLEAN :
        Called("calc_intervals", <<>>, <<>>, [events |-> e, fwd |-> f])

NextIntervals == CallCalcIntervals

SpecIntervals == InitIntervals /\ [][NextIntervals]_vars

(* ------------------------ claims: calc_intervals ----------------------- *)

\* C16: calc_intervals raises BeatIntervalError for fewer than 2 events; for
\* n >= 2 events e it returns, in backward mode, interval[i] = e[i] - e[i-1]
\* for 1 <= i < n and interval[0] = interval[1], so that e[0] plus the sum of
\* interval[1..i] is e[i] for every i >= 1; in forward mode it returns
\* interval[i] = e[i+1] - e[i] for 0 <= i < n-1 and interval[n-1] =
\* interval[n-2].  (Positions are 0-based in this comment, 1-based below.)
IntervalsReproduceEvents ==
    (call = "calc_intervals" /\ pc # "call") =>
      LET e == params.events
          n == Len(e)
      IN IF n < 2 THEN pc = "raised" /\ raised = "BeatIntervalError"
         ELSE /\ pc = "done" /\ raised = "none"
              /\ Len(result) = n
              /\ IF params.fwd
                   THEN /\ \A i \in 0..(n - 2) : result[i + 1] = e[i + 2] - e[i + 1]
                        /\ result[n] = result[n - 1]
                   ELSE /\ \A i \in 1..(n - 1) : result[i + 1] = e[i + 1] - e[i]
                        /\ result[1] = result[2]
                        /\ \A i \in 1..(n - 1) :
                             e[1] + SumSeq(SubSeq(result, 2, i + 1)) = e[i + 1]

\* backward intervals of three events with different gaps were returned
BackwardIntervalsOfUnevenEvents ==
    /\ call = "calc_intervals" /\ pc = "done"
    /\ ~params.fwd
    /\ Len(params.events) = 3
    /\ result[2] # result[3]
    /\ result[1] = result[2]

(* ------------------- calls of cml on uneven annotations ---------------- *)

PhMaxLen == 3
PhMaxTime == 4

\* sorted sequences on a grid fine enough for annotation gaps of 1 and 3
PhaseSeqs == {s \in SeqsUpTo(PhMaxLen, 0..PhMaxTime) : IsSorted(s)}

PhaseCalls ==
    {<<"cml", [BaseParams EXCEPT !.phase_tolerance = x, !.tempo_tolerance = y]>> :
        x \in {<<1, 4>>, <<1, 2>>}, y \in {<<1, 1>>}}

InitPhase ==
    \E d \in PhaseSeqs, a \in PhaseSeqs, c \in PhaseCalls : Called(c[1], d, a, c[2])

NextPhase == CallCml

SpecPhase == InitPhase /\ [][NextPhase]_vars

(* ----------------------- claims: cml's phase test ---------------------- *)

\* C17: cml counts a detection as phase-correct iff its absolute error to
\* the closest annotation is <= phase_tolerance times the interval that
\* find_closest_intervals selects for it (the gap to the next annotation when
\* the detection lies after its closest annotation, the gap from the previous
\* one otherwise).  With strictly increasing detections the correct
\* detections are those passing this phase test and the tempo test of lines
\* 543-544, so CMLt counts exactly them.
CmlPhaseBySurroundingInterval ==
    (call = "cml" /\ pc = "done"
       /\ Len(detections) >= 2 /\ Len(annotations) >= 2
       /\ StrictlyIncreasing(detections)) =>
      LET closest == FindClosestMatches(detections, annotations)
          errs == CalcAbsoluteErrors(detections, annotations, closest)
          surrounding == FindClosestIntervals(detections, annotations, closest)
          det_interval == CalcIntervals(detections, FALSE)
          ann_interval == Take(CalcIntervals(annotations, FALSE), closest)
          counted ==
              {i \in 1..Len(detections) :
                 /\ PhaseCorrect(errs[i], surrounding[i], params.phase_tolerance)
                 /\ TempoCorrect(det_interval[i], ann_interval[i],
                                 params.tempo_tolerance)}
      IN result[2] = <<Cardinality(counted),
                       Max2(Len(detections), Len(annotations))>>

(* -------------------- claims: continuity's short-circuit --------------- *)

\* lines 611-626 run from the scores of the true metrical level: what the
\* search over the requested variants would return for AMLc and AMLt
FullVariantSearch ==
    EvaluateVariants(detections,
                     Variations(annotations, params.offbeat, params.double,
                                params.double, params.triple, params.triple),
                     params.phase_tolerance, params.tempo_tolerance,
                     Ret(<<result[1], result[2]>>))

\* C18: whenever the true metrical level yields CMLc > 0.5, continuity
\* returns (CMLc, CMLt, CMLc, CMLt) and no requested metrical variation
\* yields a CMLc or CMLt greater than the true level's: the search over all
\* variants would return the same four values.
ShortCircuitKeepsResult ==
    (call = "continuity" /\ pc = "done"
       /\ Len(detections) > 0 /\ Len(annotations) > 0
       /\ FloatGt(result[1], <<1, 2>>)) =>
      /\ result[3] = result[1]
      /\ result[4] = result[2]
      /\ FullVariantSearch = Ret(<<result[1], result[2]>>)

(* ---------------- claims: variants too short for cml ------------------- *)

\* the metrical variants continuity asks for
RequestedVariants ==
    Variations(annotations, params.offbeat, params.double, params.double,
               params.triple, params.triple)

\* one pass of the loop body of lines 616-626 for the variant v, entered
\* with the scores aml
AmlAfter(v, aml) ==
    EvaluateVariants(detections, <<v>>, params.phase_tolerance,
                     params.tempo_tolerance, Ret(aml))

\* C19: with at least 2 detections, at least 2 annotations and positive
\* tolerances continuity returns a 4-tuple without raising for every flag
\* combination: a variant of exactly 1 event raises BeatIntervalError inside
\* cml, which is caught and leaves AMLc and AMLt as they were (whether the
\* loop reaches it with the scores of the true level or with the scores it
\* returns in the end), a variant of 0 events scores (0, 0), and no
\* BeatIntervalError of a variant reaches the caller.
VariantErrorsNeverPropagate ==
    (call = "continuity" /\ pc # "call"
       /\ Len(detections) >= 2 /\ Len(annotations) >= 2
       /\ ~NotPositive(params.phase_tolerance)
       /\ ~NotPositive(params.tempo_tolerance)) =>
      /\ pc = "done" /\ raised = "none"
      /\ Len(result) = 4
      /\ \A v \in Range(RequestedVariants) :
              Len(v) <= 1 =>
                LET r == ContinuityCml(detections, v, params.phase_tolerance,
                                       params.tempo_tolerance)
                IN /\ Len(v) = 1 =>
                        /\ r.raised = "BeatIntervalError"
                        /\ AmlAfter(v, <<result[1], result[2]>>)
                             = Ret(<<result[1], result[2]>>)
                        /\ AmlAfter(v, <<result[3], result[4]>>)
                             = Ret(<<result[3], result[4]>>)
                   /\ Len(v) = 0 => r = Ret(<<Zero, Zero>>)

\* continuity went through variants of one event and of no event and
\* returned
VariantsOfOneAndNoEvent ==
    /\ call = "continuity" /\ pc = "done"
    /\ Len(detections) >= 2 /\ Len(annotations) = 2
    /\ ~FloatGt(result[1], <<1, 2>>)
    /\ \E v \in Range(RequestedVariants) : Len(v) = 1
    /\ \E v \in Range(RequestedVariants) : Len(v) = 0

(* ------------- claims: the segment search on an empty input ------------ *)

\* C20: cml and goto never call find_longest_continuous_segment with an empty
\* index sequence: when no detection is both phase- and tempo-correct (cml)
\* or no match passes the threshold (goto) the call is guarded.
SegmentSearchNeverOnEmptyInput ==
    call \in {"cml", "goto"} =>
      \A i \in 1..Len(searched) : searched[i] # <<>>

(* ============ calls of find_closest_intervals and _error_histogram ===== *)

\* lines 195-229 of find_closest_intervals, called without matches
FindClosestIntervalsOf(dets, annots) ==
    IF Len(dets) = 0 THEN Ret(<<>>)
    ELSE IF Len(annots) < 2 THEN Raise("BeatIntervalError")
    ELSE Ret(FindClosestIntervals(dets, annots, FindClosestMatches(dets, annots)))

CallFindClosestIntervals ==
    /\ pc = "call" /\ call = "find_closest_intervals"
    /\ \E r \in {FindClosestIntervalsOf(detections, annotations)} : Finish(r)

\* lines 680-682 of _error_histogram: calc_relative_errors (which returns an
\* empty array for no detections and raises for fewer than 2 annotations,
\* lines 269-274) and the folding; errors is the local of that name
ErrorHistogramFold ==
    /\ pc = "call" /\ call = "_error_histogram"
    /\ IF Len(detections) = 0
         THEN /\ errors' = <<>>
              /\ pc' = "histogram"
              /\ UNCHANGED raised
       ELSE IF Len(annotations) < 2
         THEN /\ raised' = "BeatIntervalError"
              /\ pc' = "raised"
              /\ UNCHANGED errors
       ELSE /\ errors' = FoldedErrors(detections, annotations)
            /\ pc' = "histogram"
            /\ UNCHANGED raised
    /\ UNCHANGED <<inputs, det, ann, det_index, ann_index, tp, fp, fn, result, searched>>

\* lines 684-688 of _error_histogram, with the bin edges of
\* _histogram_bins(num_bins)
ErrorHistogramBin ==
    /\ pc = "histogram"
    /\ result' = BinCounts(errors, params.num_bins)
    /\ pc' = "done"
    /\ UNCHANGED <<inputs, scan, raised, searched>>

ErrorCalls ==
    {<<"find_closest_intervals", BaseParams>>}
    \cup {<<"_error_histogram", [BaseParams EXCEPT !.num_bins = n]>> : n \in {2, 4}}

InitErrors ==
    \E d \in PhaseSeqs, a \in PhaseSeqs, c \in ErrorCalls : Called(c[1], d, a, c[2])

NextErrors == CallFindClosestIntervals \/ ErrorHistogramFold \/ ErrorHistogramBin

SpecErrors == InitErrors /\ [][NextErrors]_vars

(* -------------------- claims: find_closest_intervals ------------------- *)

\* C21: for sorted annotations a of n >= 2 events and a detection with the
\* closest-annotation index m and the signed error err, find_closest_intervals
\* returns a[m+1] - a[m] when err > 0 and m < n-1, a[m] - a[m-1] when
\* err <= 0 and m > 0, the last gap when err > 0 and m = n-1, the first gap
\* when err <= 0 and m = 0; the index into the table of n+1 intervals is
\* within [0, n] and a value is returned for every detection.
ClosestIntervalIsSurroundingGap ==
    (call = "find_closest_intervals" /\ pc # "call"
       /\ Len(detections) > 0 /\ Len(annotations) >= 2) =>
      LET a == annotations
          n == Len(a)
          matches == FindClosestMatches(detections, a)
      IN /\ pc = "done" /\ raised = "none"
         /\ Len(result) = Len(detections)
         /\ \A i \in 1..Len(detections) :
              LET m == matches[i]
                  err == detections[i] - a[m + 1]
                  index == IF err > 0 THEN m + 1 ELSE m
              IN /\ index \in 0..n
                 /\ (err > 0 /\ m < n - 1) => result[i] = a[m + 2] - a[m + 1]
                 /\ (err <= 0 /\ m > 0) => result[i] = a[m + 1] - a[m]
                 /\ (err > 0 /\ m = n - 1) => result[i] = a[n] - a[n - 1]
                 /\ (err <= 0 /\ m = 0) => result[i] = a[2] - a[1]

\* a detection after an annotation that is followed by a wider gap than the
\* one before it got the gap to the next annotation
GapToTheNextAnnotation ==
    /\ call = "find_closest_intervals" /\ pc = "done"
    /\ annotations = <<0, 1, 4>>
    /\ detections = <<2>>
    /\ result = <<3>>

(* ------------------------ claims: _error_histogram --------------------- *)

\* C22: before binning, _error_histogram folds every (finite) relative error
\* to a value e' with -0.5 <= e' < 0.5 that differs from it by an integer; a
\* relative error of exactly 0.5 or -0.5 is folded to -0.5 and +0.5 is never
\* produced.
ErrorsFoldedBelowHalf ==
    (call = "_error_histogram" /\ pc = "histogram") =>
      \A i \in 1..Len(errors) :
        IsRat(errors[i]) =>
          /\ RatLe(<<-1, 2>>, errors[i])
          /\ RatLt(errors[i], <<1, 2>>)


\* the raw bin (0..num_bins) of np.histogram that holds the folded error f
RawBinOfEdges(f, num_bins) ==
    CHOOSE k \in 0..num_bins :
        LET lower == <<2 * k - num_bins - 1, 2 * num_bins>>
            upper == <<2 * k - num_bins + 1, 2 * num_bins>>
        IN /\ RatLe(lower, f)
           /\ \/ RatLt(f, upper)
              \/ k = num_bins /\ RatEq(f, upper)

\* C23: for every even num_bins >= 2 and at least 2 strictly increasing
\* reference events the histogram of _error_histogram has exactly num_bins
\* entries that sum to the number of query events: every folded error lies
\* within the bin edges and is counted in exactly one bin, entry 0 holds the
\* sum of the first and the last raw bin, and a relative error of 0 is
\* counted in the entry num_bins / 2.
HistogramCountsEveryEvent ==
    (call = "_error_histogram" /\ pc = "done"
       /\ Len(annotations) >= 2 /\ StrictlyIncreasing(annotations)) =>
      LET num_bins == params.num_bins
          in_raw(k) == {i \in 1..Len(errors) : RawBinOfEdges(errors[i], num_bins) = k}
      IN /\ Len(result) = num_bins
         /\ SumSeq(result) = Len(detections)
         /\ Len(errors) = Len(detections)
         /\ \A i \in 1..Len(errors) :
              /\ IsRat(errors[i])
              /\ RatLe(<<-num_bins - 1, 2 * num_bins>>, errors[i])
              /\ RatLe(errors[i], <<num_bins + 1, 2 * num_bins>>)
         /\ result[1] = Cardinality(in_raw(0)) + Cardinality(in_raw(num_bins))
         /\ \A k \in 1..(num_bins - 1) : result[k + 1] = Cardinality(in_raw(k))
         /\ \A i \in 1..Len(errors) :
              errors[i][1] = 0 => in_raw(num_bins \div 2) # {} /\ result[num_bins \div 2 + 1] > 0

\* a histogram with an exact detection in the centre bin and detections of
\* both the first and the last raw bin in entry 0
WrapBinAndCentreBinFilled ==
    /\ call = "_error_histogram" /\ pc = "done"
    /\ params.num_bins = 4
    /\ StrictlyIncreasing(annotations)
    /\ \E i \in 1..Len(errors) : errors[i][1] = 0
    /\ \E i \in 1..Len(errors) : RawBinOfEdges(errors[i], 4) = 4
    /\ result[1] > 0 /\ result[3] > 0

(* ------------------- claims: the variants of a sequence ---------------- *)

\* the 1-based position in the list returned by variations of the first
\* sequence that a flag adds; the flags before it add 1, 1, 2 and 1 sequences
PositionOf(flag) ==
    1 + (IF params.offbeat /\ flag # "offbeat" THEN 1 ELSE 0)
      + (IF params.double /\ flag \in {"half", "triple", "third"} THEN 1 ELSE 0)
      + (IF params.half /\ flag \in {"triple", "third"} THEN 2 ELSE 0)
      + (IF params.triple /\ flag = "third" THEN 1 ELSE 0)

\* the sequences vs hold every event of s once: event i (0-based) is the
\* event i \div k of the sequence i % k
PartitionByIndex(s, vs) ==
    LET k == Len(vs)
    IN /\ SumSeq([j \in 1..k |-> Len(vs[j])]) = Len(s)
       /\ \A i \in 0..(Len(s) - 1) :
            /\ i \div k < Len(vs[(i % k) + 1])
            /\ vs[(i % k) + 1][(i \div k) + 1] = s[i + 1]

\* C24: for a sequence s of n >= 1 events the double-tempo variant has
\* exactly 2n-1 elements, element 2i is s[i] and element 2i+1 the midpoint of
\* s[i] and s[i+1] (0-based), so it ends with the last real event and its
\* even-indexed elements give back s; the offbeat variant consists of exactly
\* the n-1 midpoints; the two half-tempo variants, and likewise the three
\* third-tempo variants, partition s by index.
VariantsInterleaveAndPartition ==
    (call = "variations" /\ pc = "done" /\ Len(params.sequence) >= 1) =>
      LET s == params.sequence
          n == Len(s)
      IN /\ params.double =>
              LET d == result[PositionOf("double")]
              IN /\ Len(d) = 2 * n - 1
                 /\ \A i \in 0..(n - 1) : d[2 * i + 1] = s[i + 1]
                 /\ \A i \in 0..(n - 2) : 2 * d[2 * i + 2] = s[i + 1] + s[i + 2]
                 /\ d[Len(d)] = s[n]
                 /\ SameSeq(Stride(d, 0, 2), s)
         /\ params.offbeat =>
              LET o == result[PositionOf("offbeat")]
              IN /\ Len(o) = n - 1
                 /\ \A i \in 0..(n - 2) : 2 * o[i + 1] = s[i + 1] + s[i + 2]
         /\ params.half =>
              PartitionByIndex(s, SubSeq(result, PositionOf("half"),
                                         PositionOf("half") + 1))
         /\ params.third =>
              PartitionByIndex(s, SubSeq(result, PositionOf("third"),
                                         PositionOf("third") + 2))

\* the variants of three unevenly spaced events, with all flags set
VariantsOfUnevenEvents ==
    /\ call = "variations" /\ pc = "done"
    /\ params.sequence = <<0, 6, 6>>
    /\ params.offbeat /\ params.double /\ params.half /\ params.triple /\ params.third
    /\ result[2] = <<0, 3, 6, 6, 6>>
    /\ result[3] = <<0, 6>> /\ result[4] = <<6>>

(* ------------------ claims: the scan loop comes to an end -------------- *)

\* onset_evaluation as it is run: a call that has started goes on to its
\* next statement
SpecOnsetRun == SpecOnset /\ WF_vars(NextOnset)

\* the pointers stay within their sequences
PointersInRange ==
    pc = "scan" => det_index \in 0..Len(det) /\ ann_index \in 0..Len(ann)

\* an iteration of the loop advances one pointer or both by exactly 1 and
\* moves none back
IterationAdvances ==
    (pc = "scan" /\ det_index < Len(det) /\ ann_index < Len(ann)) =>
      /\ pc' = "scan"
      /\ det_index' \in {det_index, det_index + 1}
      /\ ann_index' \in {ann_index, ann_index + 1}
      /\ det_index' + ann_index' > det_index + ann_index
      /\ det_index' <= Len(det) /\ ann_index' <= Len(ann)

\* on the exit of the loop a pointer is at the end of its sequence and the
\* rest of both sequences goes to fp and fn
ExitTakesTheRest ==
    (pc = "scan" /\ pc' # "scan") =>
      /\ det_index = Len(det) \/ ann_index = Len(ann)
      /\ fp' = fp \o SubSeq(det, det_index + 1, Len(det))
      /\ fn' = fn \o SubSeq(ann, ann_index + 1, Len(ann))

\* C25: the scan loop of onset_evaluation terminates: every iteration
\* advances at least one of the two pointers by exactly 1, no pointer
\* decreases or exceeds its sequence length (so there are at most
\* len(detections) + len(annotations) iterations); when the loop exits a
\* pointer equals its sequence length and every detection from the detection
\* pointer on is appended to fp, every annotation from the annotation pointer
\* on to fn.
ScanLoopTerminates ==
    /\ []PointersInRange
    /\ [][IterationAdvances /\ ExitTakesTheRest]_vars
    /\ <>(pc \in {"done", "raised"})

\* a scan that ended with detections and then went on to the return, the rest
\* of the annotations in fn
ScanLeftAnnotations ==
    /\ call = "onset_evaluation" /\ pc = "done"
    /\ det # <<>> /\ det_index = Len(det) /\ ann_index < Len(ann)
    /\ tp # <<>> /\ fp # <<>>
    /\ Len(fn) >= Len(ann) - ann_index

(* ------------------- claims: the scan finds a largest matching --------- *)

\* the size of a largest one-to-one matching of the events d with the events
\* of a not in used, in which matched events are at most window apart
RECURSIVE MaxPairs(_, _, _, _)
MaxPairs(d, a, window, used) ==
    IF d = <<>> THEN 0
    ELSE LET without == MaxPairs(Tail(d), a, window, used)
             with == {1 + MaxPairs(Tail(d), a, window, used \cup {j}) :
                        j \in {k \in (1..Len(a)) \ used :
                                 Abs(Head(d) - a[k]) <= window}}
         IN SetMax(with \cup {without})

\* the events vs are events of s at increasing positions
AtIncreasingPositions(vs, s) ==
    \E p \in [1..Len(vs) -> 1..Len(s)] :
        /\ \A k \in 1..Len(vs) : s[p[k]] = vs[k]
        /\ \A k \in 1..(Len(vs) - 1) : p[k] < p[k + 1]

\* C26: for sorted detections and annotations and every window > 0 the true
\* positives are a one-to-one, order-preserving pairing of detections with
\* annotations at most window apart, and len(tp) is the greatest number of
\* pairs of any one-to-one matching of detections with annotations at most
\* window apart.
GreedyScanIsOptimal ==
    (call = "onset_evaluation" /\ pc = "done" /\ params.window > 0
       /\ Len(detections) > 0 /\ Len(annotations) > 0) =>
      LET paired == [k \in 1..Len(result.tp) |-> result.tp[k] - result.errors[k]]
      IN /\ Len(result.errors) = Len(result.tp)
         /\ \A k \in 1..Len(result.tp) : Abs(result.errors[k]) <= params.window
         /\ AtIncreasingPositions(result.tp, detections)
         /\ AtIncreasingPositions(paired, annotations)
         /\ Len(result.tp) = MaxPairs(detections, annotations, params.window, {})

\* a scan that passed over a detection and an annotation and still found the
\* two pairs of a largest matching
TwoPairsAroundUnmatchedEvents ==
    /\ call = "onset_evaluation" /\ pc = "done"
    /\ params.window = 1
    /\ Len(result.tp) = 2 /\ Len(result.fp) = 1 /\ Len(result.fn) = 1
    /\ MaxPairs(detections, annotations, 1, {}) = 2

(* ------------------- claims: swapping the two sequences ---------------- *)

\* C27: for sorted sequences x, y and every window > 0,
\* onset_evaluation(y, x, window) has as many true positives as
\* onset_evaluation(x, y, window), its false positives are the other's false
\* negatives and the other way round, and its errors are the other's errors
\* negated element by element.
SwappedSequencesMirror ==
    (call = "onset_evaluation" /\ pc = "done" /\ params.window > 0) =>
      LET swapped == OnsetEvaluationOf(annotations, detections, params.window)
      IN /\ swapped.raised = "none"
         /\ Len(swapped.value.tp) = Len(result.tp)
         /\ swapped.value.fp = result.fn
         /\ swapped.value.fn = result.fp
         /\ Len(swapped.value.errors) = Len(result.errors)
         /\ \A k \in 1..Len(result.errors) :
              swapped.value.errors[k] = -result.errors[k]

\* an evaluation with a false positive, no false negative and an error that
\* is not 0, whose mirror image has the false negative
MirrorOfLateDetection ==
    /\ call = "onset_evaluation" /\ pc = "done" /\ params.window > 0
    /\ Len(result.fp) > 0 /\ Len(result.fn) = 0
    /\ \E k \in 1..Len(result.errors) : result.errors[k] > 0
    /\ OnsetEvaluationOf(annotations, detections, params.window).value.fn = result.fp

(* ------------------------ claims: the range of cml --------------------- *)

\* C28: whenever cml returns, 0 <= CMLc <= CMLt <= 1: the longest run of
\* correct detections is not longer than the number of correct detections,
\* which is not larger than max(len(detections), len(annotations)); when no
\* detection is correct cml returns (0, 0).
CmlScoresOrdered ==
    (call = "cml" /\ pc = "done") =>
      /\ IsRat(result[1]) /\ IsRat(result[2])
      /\ RatLe(Zero, result[1])
      /\ RatLe(result[1], result[2])
      /\ RatLe(result[2], One)
      /\ (Len(detections) >= 2 /\ Len(annotations) >= 2) =>
           /\ result[1][1] <= result[2][1]
           /\ result[2][1] <= Max2(Len(detections), Len(annotations))
           /\ result[1][2] = Max2(Len(detections), Len(annotations))
           /\ CorrectPositions = {} => result[1][1] = 0 /\ result[2][1] = 0

\* a longest run that is shorter than the number of correct detections,
\* which is smaller than the number of annotations
RunShorterThanCorrectCount ==
    /\ call = "cml" /\ pc = "done"
    /\ Len(detections) >= 2 /\ Len(annotations) >= 2
    /\ RatLt(Zero, result[1])
    /\ RatLt(result[1], result[2])
    /\ RatLt(result[2], One)


(* ------------------------- range of the accuracy ----------------------- *)
\* the number of Gaussian weights exp(0) = 1 among exp(exponents[i]); every
\* other weight is positive, so the sum of the weights is larger than this
FullWeights(exponents) ==
    Cardinality({i \in 1..Len(exponents) : exponents[i][1] = 0})

\* C29: cemgil returns an accuracy in [0, 1] for all sequences and every
\* sigma > 0, and cemgil(x, x) is 1 for every non-empty x. The weights that
\* are exactly 1 alone must not exceed the normalisation
\* 0.5 * (len(annotations) + len(detections)), and for equal sequences all
\* weights are 1 and the normalisation is their number.
CemgilWithinUnitRange ==
    (call = "cemgil" /\ pc = "done" /\ detections # <<>> /\ annotations # <<>>) =>
      /\ FullWeights(result.exponents) * result.norm[2] <= result.norm[1]
      /\ detections = annotations =>
           /\ FullWeights(result.exponents) = Len(detections)
           /\ result.norm[1] = Len(detections) * result.norm[2]


(* --------------------- claims: BeatEvaluation(...) --------------------- *)
\* the sequences BeatEvaluation scores: sorted, the first skip seconds left out
Scored(s) == SkipFirst(Sort(s), params.skip)

\* C30: with the default parameters and strictly increasing sequences that
\* are non-empty after sorting and skipping, BeatEvaluation(...) completes
\* with all its metrics iff both sequences have at least 2 events; with
\* exactly 1 annotation pscore raises BeatIntervalError, with exactly 1
\* detection (and 2 or more annotations) the first steps pass and cml, called
\* by continuity, raises it; an exception leaves no result object.
BeatEvaluationNeedsTwoEvents ==
    (/\ call = "BeatEvaluation" /\ pc \in {"done", "raised"}
     /\ params.delay = 0
     /\ Scored(detections) # <<>> /\ Scored(annotations) # <<>>
     /\ StrictlyIncreasing(Scored(detections))
     /\ StrictlyIncreasing(Scored(annotations))) =>
      LET d == Scored(detections)
          a == Scored(annotations)
          p == params
      IN /\ pc = "done" <=> (Len(d) >= 2 /\ Len(a) >= 2)
         /\ pc = "done" => raised = "none" /\ Len(result) = 6
         /\ pc = "raised" => raised = "BeatIntervalError" /\ result = <<>>
         /\ Len(a) = 1 =>
              /\ OnsetEvaluationOf(d, a, p.fmeasure_window).raised = "none"
              /\ Pscore(d, a, p.pscore_tolerance).raised = "BeatIntervalError"
         /\ (Len(d) = 1 /\ Len(a) >= 2) =>
              /\ OnsetEvaluationOf(d, a, p.fmeasure_window).raised = "none"
              /\ Pscore(d, a, p.pscore_tolerance).raised = "none"
              /\ Cemgil(d, a, p.cemgil_sigma).raised = "none"
              /\ Goto(d, a, p.goto_threshold, p.goto_sigma, p.goto_mu).raised = "none"
              /\ Cml(d, a, p.continuity_tempo_tolerance,
                     p.continuity_phase_tolerance).raised = "BeatIntervalError"
              /\ Continuity(d, a, p.continuity_tempo_tolerance,
                            p.continuity_phase_tolerance, p.offbeat, p.double,
                            p.triple).raised = "BeatIntervalError"

\* BeatEvaluation([1.], [2., 0.]) has raised BeatIntervalError
BeatEvaluationOfOneDetection ==
    /\ call = "BeatEvaluation" /\ pc = "raised" /\ params.delay = 0
    /\ params.skip = 0
    /\ detections = <<Tick>> /\ annotations = <<2 * Tick, 0>>
    /\ raised = "BeatIntervalError"
====
